---- MODULE Spec2Model ----
(***************************************************************************)
(* A model of VDDT (Vince-Alex/VDDT): the curses dialogs and the main loop *)
(* of src/DEBUG/tui.py, the link-list reader of the batch mode, and the    *)
(* option dictionaries that the download flows hand to the download        *)
(* engine (src/DEBUG/downloader_core.py, src/DEBUG/downloader_handler.py,  *)
(* src/VDDT.py and the VDDT-beta mains).                                   *)
(*                                                                         *)
(* Python values are modelled as follows: None is the string "None", a     *)
(* list is a sequence (Python index i is sequence index i + 1), a dict is  *)
(* a function from the set of its keys, str is a sequence of characters    *)
(* where the claim is about its characters and an atom otherwise.  An      *)
(* exception that no handler of the modelled code catches moves the flow   *)
(* to the position "raised".                                               *)
(***************************************************************************)
EXTENDS Integers, Sequences, FiniteSets, TLC

None == "None"

Min(a, b) == IF a < b THEN a ELSE b
Max(a, b) == IF a > b THEN a ELSE b

\* Python's seq[i]: it raises IndexError unless -len(seq) <= i < len(seq),
\* and a negative i counts from the end.
PyInRange(seq, i) == -Len(seq) <= i /\ i < Len(seq)
PyIndex(seq, i) == IF i >= 0 THEN seq[i + 1] ELSE seq[Len(seq) + i + 1]

\* The longest prefix of seq with at most n elements (seq[:n], n >= 0).
Take(seq, n) == SubSeq(seq, 1, Min(n, Len(seq)))

(***************************************************************************)
(* Bounds of the model.                                                    *)
(***************************************************************************)
\* Longest option list of a generic SelectDialog.
MaxOptions == 7
\* The terminal heights (curses.LINES) tried are 9 .. 9 + TermRange.
TermRange == 7
\* Most regular files in a directory of the sample file system.
MaxFiles == 2
\* Most links in a link list handed to a batch task.
MaxLinks == 2
\* Most worker threads alive at a time.
MaxTasks == 1
\* Most lines of a link-list file, and most characters of a line before its
\* newline.
MaxFileLines == 2
MaxLineLen == 3
\* Most formats in the list of an info dict, and most characters of a file
\* name (before the 199 characters that lead a long name).
MaxFormats == 3
MaxNameLen == 3
\* Most keys typed into an InputDialog before Enter (after the 45 that lead
\* a long text).
MaxKeys == 3

(***************************************************************************)
(* State.                                                                  *)
(***************************************************************************)
VARIABLES
    \* --- the terminal ---
    LINES,              \* curses.LINES, the rows of the terminal
    \* --- SelectDialog (tui.py 417-515) ---
    options,            \* self.options: the option values, in display order
    sd_height,          \* self.height
    sd_selected,        \* self.selected
    sd_scroll_offset,   \* self.scroll_offset
    sd_result,          \* self.result
    sd_key,             \* key: the last key getch() gave to show()
    sd_pc,              \* "closed" | "show" | "returned" | "raised"
    \* --- the file system seen by FileBrowserDialog ---
    fs_files,           \* the number of regular files in every directory
    fs_denied,          \* the directories whose os.listdir raises
    \* --- FileBrowserDialog (tui.py 308-414) ---
    fb_path,            \* self.current_path
    fb_items,           \* self.items
    fb_height,          \* self.height
    fb_selected,        \* self.selected
    fb_scroll_offset,   \* self.scroll_offset
    fb_result,          \* the value show() returns
    fb_key,             \* key: the last key getch() gave to show()
    fb_pc,              \* "closed" | "show" | "returned" | "raised"
    \* --- VDDTApp (tui.py 522-1507) ---
    running,            \* self.running
    menu_index,         \* self.menu_index
    has_selectable,     \* whether the attribute self._selectable_indices exists
    selectable_indices, \* self._selectable_indices
    status_msg,         \* self.status_msg
    status_level,       \* self.status_level
    progress,           \* self.progress, in percent
    progress_label,     \* self.progress_label
    screen,             \* what the _draw of this turn of run() put on the terminal
    app_pc,             \* "closed" | "draw" | "input" | "select" | "modal" |
                        \* "exited" | "raised": where run() stands
    app_key,            \* key of _handle_input while its call lasts
    callback,           \* the menu callback that _handle_input is running
    dlg,                \* the dialog whose show() blocks the callback
    mode,               \* the value the last SelectDialog returned to the callback
    app_n,              \* len(links) or len(selected_files) of the callback
    tasks,              \* the worker threads alive, in the order of their start
    status_src,         \* history: who wrote status_msg/status_level last
    progress_src,       \* history: who wrote progress/progress_label last
    \* --- the batch mode reading its link-list file ---
    bf_reader,          \* the source file whose batch code runs
    bf_file,            \* the lines of the file, each with its newline
    bf_links,           \* links
    bf_handed,          \* the urls handed to the downloader so far, in order
    bf_pc,              \* "closed" | "open" | "loop" | "done" | "nolinks"
    \* --- the option dictionaries handed to the download engine ---
    op_flow,            \* the file or task whose flow runs
    op_pc,              \* the step the flow is at
    op_proxy,           \* config.network.proxy
    op_template,        \* config.download.filename_template
    op_url,             \* url
    op_cookie,          \* cookie_file of main, set from prepare_cookies_netscape
    op_base,            \* ydl_opts of main / base_ydl_opts
    op_opts,            \* current_ydl_opts / ydl_opts of a TUI task
    op_mode,            \* mode
    op_format,          \* chosen_format_id / chosen_format
    op_info,            \* whether info_dict / video_info is not None
    op_custom,          \* history: the template typed after a yes, else None
    op_calls,           \* history: the uses of the engine, in order
    op_left,            \* the links batch_task has still to download
    op_formats,         \* whether formats is not empty
    op_result,          \* what handle_single_download returned, None before
    op_entry,           \* history: the text confirmed in the proxy dialog
    op_preset,          \* history: the answer of the transcode step
    op_engine,          \* history: how the last use of the engine ended
    cf_config,          \* ConfigManager.config: section -> attribute -> value
    cf_file,            \* the file at config_path: [state, data]
    cf_saved,           \* history: the configuration held at the last save()
    cf_ret,             \* history: what the last save() returned
    cf_read,            \* history: the state of the file the last load() found
    cf_op,              \* history: the last operation, "save_load" for a load
                        \* made right after a save
    pf_call,            \* the function called last
    pf_arg,             \* its argument
    pf_ret,             \* what it returned
    \* --- a callback with its InputDialog ---
    in_kind,            \* what the dialog asks for: "url" or a settings item
    in_held,            \* history: the value held when the dialog opened
    in_config,          \* the value the callback assigns to
    in_keys,            \* history: the keys the user typed
    in_ret,             \* what show() returned, as [none, text]
    in_pc               \* "closed" | "open" | "done"

termVars == <<LINES>>
sdVars == <<options, sd_height, sd_selected, sd_scroll_offset, sd_result, sd_key,
           sd_pc>>
fsVars == <<fs_files, fs_denied>>
fbVars == <<fb_path, fb_items, fb_height, fb_selected, fb_scroll_offset, fb_result,
           fb_key, fb_pc>>
appVars == <<running, menu_index, has_selectable, selectable_indices, status_msg,
            status_level, progress, progress_label, screen, app_pc, app_key,
            callback, dlg, mode, app_n, tasks, status_src, progress_src>>
bfVars == <<bf_reader, bf_file, bf_links, bf_handed, bf_pc>>
opVars == <<op_flow, op_pc, op_proxy, op_template, op_url, op_cookie, op_base,
           op_opts, op_mode, op_format, op_info, op_custom, op_calls, op_left,
           op_formats, op_result, op_entry, op_preset, op_engine>>
cfVars == <<cf_config, cf_file, cf_saved, cf_ret, cf_read, cf_op>>
pfVars == <<pf_call, pf_arg, pf_ret>>
inVars == <<in_kind, in_held, in_config, in_keys, in_ret, in_pc>>
vars == <<termVars, sdVars, fsVars, fbVars, appVars, bfVars, opVars, cfVars,
          pfVars, inVars>>

TermLines == 9 .. (9 + TermRange)

(***************************************************************************)
(* SelectDialog                                                            *)
(***************************************************************************)
SD_MIN_HEIGHT == 8
SD_MAX_HEIGHT == 15

\* SelectDialog.__init__ and Dialog.__init__: the height of the window.
SelectHeight(n, lines) ==
    Min(Min(Max(Min(n + 5, SD_MAX_HEIGHT), SD_MIN_HEIGHT), lines - 4), lines - 4)

\* visible_count of SelectDialog.show.
SelectVisible == sd_height - 5

\* The keys getch() can deliver to a dialog; "TIMEOUT" is -1 and "x" any key
\* that no branch handles.
DigitKeys == {"1", "2", "3", "4", "5", "6", "7", "8", "9"}
NavKeys   == {"UP", "k", "DOWN", "j"}
Keys      == NavKeys \cup DigitKeys \cup {"ENTER", "q", "Q", "TIMEOUT", "x"}

\* key - ord('1') for a digit key.
DigitIndex(k) ==
    CASE k = "1" -> 0 [] k = "2" -> 1 [] k = "3" -> 2 [] k = "4" -> 3
      [] k = "5" -> 4 [] k = "6" -> 5 [] k = "7" -> 6 [] k = "8" -> 7
      [] k = "9" -> 8

\* SelectDialog(stdscr, title, opts): the state after construction.
SelectOpen(opts) ==
    /\ options' = opts
    /\ sd_height' = SelectHeight(Len(opts), LINES)
    /\ sd_selected' = 0
    /\ sd_scroll_offset' = 0
    /\ sd_result' = None
    /\ sd_key' = None
    /\ sd_pc' = "show"

\* The selected index after the Up key.
SelectUpIndex == (sd_selected - 1) % Len(options)

\* The selected index after the Down key.
SelectDownIndexNoWrap == sd_selected + 1
SelectDownIndex == (sd_selected + 1) % Len(options)

\* One turn of the loop of SelectDialog.show with key k: the fields of the
\* dialog and the position of show() after it.
SelectStep(k) ==
    LET here == [selected |-> sd_selected, scroll_offset |-> sd_scroll_offset,
                 result |-> sd_result, pc |-> "show"]
    IN
    IF k \in {"UP", "k"} THEN
        IF Len(options) = 0 THEN [here EXCEPT !.pc = "raised"]
        ELSE [here EXCEPT !.selected = SelectUpIndex,
                          !.scroll_offset =
                              IF SelectUpIndex < sd_scroll_offset
                              THEN SelectUpIndex ELSE sd_scroll_offset]
    ELSE IF k \in {"DOWN", "j"} THEN
        IF Len(options) = 0 THEN [here EXCEPT !.pc = "raised"]
        ELSE [here EXCEPT !.selected = SelectDownIndex,
                          !.scroll_offset =
                              IF SelectDownIndex >= sd_scroll_offset + SelectVisible
                              THEN SelectDownIndex - SelectVisible + 1
                              ELSE sd_scroll_offset]
    ELSE IF k = "ENTER" THEN
        IF PyInRange(options, sd_selected)
        THEN [here EXCEPT !.result = PyIndex(options, sd_selected), !.pc = "returned"]
        ELSE [here EXCEPT !.pc = "raised"]
    ELSE IF k \in {"q", "Q"} THEN
        [here EXCEPT !.pc = "returned"]
    ELSE IF k \in DigitKeys /\ DigitIndex(k) < Len(options) THEN
        [here EXCEPT !.result = PyIndex(options, DigitIndex(k)), !.pc = "returned"]
    ELSE here

\* show() of a dialog that stands alone reads key k.
SelectKey(k) ==
    /\ sd_pc = "show"
    /\ sd_key' = k
    /\ sd_selected' = SelectStep(k).selected
    /\ sd_scroll_offset' = SelectStep(k).scroll_offset
    /\ sd_result' = SelectStep(k).result
    /\ sd_pc' = SelectStep(k).pc
    /\ UNCHANGED <<options, sd_height>>

\* A curses.error while the dialog draws: show() returns None.
SelectCursesError ==
    /\ sd_pc = "show"
    /\ sd_result' = None
    /\ sd_pc' = "returned"
    /\ UNCHANGED <<options, sd_height, sd_selected, sd_scroll_offset, sd_key>>

(***************************************************************************)
(* FileBrowserDialog                                                       *)
(***************************************************************************)
\* The directories of the sample file system, as paths from the root:
\* / has the sub-directories 1 and 2, and /1 has the sub-directory 1.
FsPaths == {<<>>, <<1>>, <<2>>, <<1, 1>>}

\* sorted(dirs) of os.listdir(path): the names of the sub-directories.
SubDirs(path) ==
    LET names == {p[Len(p)] : p \in {q \in FsPaths :
                     Len(q) = Len(path) + 1 /\ SubSeq(q, 1, Len(path)) = path}}
        Sorted[ns \in SUBSET names] ==
            IF ns = {} THEN <<>>
            ELSE LET m == CHOOSE x \in ns : \A y \in ns : x <= y
                 IN <<m>> \o Sorted[ns \ {m}]
    IN Sorted[names]

UpItem  == [kind |-> "up", id |-> 0]      \* (".. [...]", "..")
ErrItem == [kind |-> "none", id |-> 0]    \* the unreachable-directory entry, name ""

\* The items of a directory that can be listed: "..", its directories, its files.
Listing(path, nfiles) ==
    <<UpItem>>
    \o [i \in 1 .. Len(SubDirs(path)) |-> [kind |-> "dir", id |-> SubDirs(path)[i]]]
    \o [j \in 1 .. nfiles |-> [kind |-> "file", id |-> j]]

\* FileBrowserDialog.__init__: the height of the window.
BrowserHeight(lines) == Min(Min(20, lines - 4), lines - 4)

\* visible_count of FileBrowserDialog.show.
BrowserVisible == fb_height - 6

\* os.path.abspath(os.path.join(path, "..")).
Parent(path) == IF path = <<>> THEN <<>> ELSE SubSeq(path, 1, Len(path) - 1)

\* _refresh_items for the directory path: selected and scroll_offset are
\* reset after a listing that succeeded and kept when the listing raised.
RefreshItems(path) ==
    IF path \in fs_denied
    THEN /\ fb_items' = <<UpItem, ErrItem>>
         /\ UNCHANGED <<fb_selected, fb_scroll_offset>>
    ELSE /\ fb_items' = Listing(path, fs_files)
         /\ fb_selected' = 0
         /\ fb_scroll_offset' = 0

\* The selected index after the Up and after the Down key.
BrowserUpIndex == (fb_selected - 1) % Len(fb_items)
BrowserDownIndex == (fb_selected + 1) % Len(fb_items)

\* One turn of the loop of FileBrowserDialog.show with key k.
BrowserKey(k) ==
    /\ fb_pc = "show"
    /\ fb_key' = k
    /\ UNCHANGED fb_height
    /\ IF k \in {"UP", "k"} THEN
          /\ fb_selected' = BrowserUpIndex
          /\ fb_scroll_offset' =
                IF fb_selected' < fb_scroll_offset
                THEN fb_selected' ELSE fb_scroll_offset
          /\ UNCHANGED <<fb_path, fb_items, fb_result, fb_pc>>
       ELSE IF k \in {"DOWN", "j"} THEN
          /\ fb_selected' = BrowserDownIndex
          /\ fb_scroll_offset' =
                IF fb_selected' >= fb_scroll_offset + BrowserVisible
                THEN fb_selected' - BrowserVisible + 1 ELSE fb_scroll_offset
          /\ UNCHANGED <<fb_path, fb_items, fb_result, fb_pc>>
       ELSE IF k = "ENTER" THEN
          LET item == PyIndex(fb_items, fb_selected) IN
          IF ~PyInRange(fb_items, fb_selected) THEN
             /\ fb_pc' = "raised"
             /\ UNCHANGED <<fb_path, fb_items, fb_selected, fb_scroll_offset, fb_result>>
          ELSE IF item.kind = "none" THEN
             UNCHANGED <<fb_path, fb_items, fb_selected, fb_scroll_offset, fb_result,
                         fb_pc>>
          ELSE IF item.kind = "file" THEN
             /\ fb_result' = <<"file", fb_path, item.id>>
             /\ fb_pc' = "returned"
             /\ UNCHANGED <<fb_path, fb_items, fb_selected, fb_scroll_offset>>
          ELSE
             LET new_path == IF item.kind = "up" THEN Parent(fb_path)
                             ELSE Append(fb_path, item.id)
             IN /\ fb_path' = new_path
                /\ RefreshItems(new_path)
                /\ UNCHANGED <<fb_result, fb_pc>>
       ELSE IF k \in {"s", "S"} THEN
          /\ fb_result' = <<"dir", fb_path, 0>>
          /\ fb_pc' = "returned"
          /\ UNCHANGED <<fb_path, fb_items, fb_selected, fb_scroll_offset>>
       ELSE IF k \in {"q", "Q"} THEN
          /\ fb_result' = <<"None", <<>>, 0>>
          /\ fb_pc' = "returned"
          /\ UNCHANGED <<fb_path, fb_items, fb_selected, fb_scroll_offset>>
       ELSE
          UNCHANGED <<fb_path, fb_items, fb_selected, fb_scroll_offset, fb_result,
                      fb_pc>>

\* A curses.error while the browser draws: show() returns None.
BrowserCursesError ==
    /\ fb_pc = "show"
    /\ fb_result' = <<"None", <<>>, 0>>
    /\ fb_pc' = "returned"
    /\ UNCHANGED <<fb_path, fb_items, fb_height, fb_selected, fb_scroll_offset, fb_key>>

BrowserKeys == Keys \cup {"s", "S"}

\* No FileBrowserDialog exists.
BrowserClosed ==
    /\ fs_files = 0
    /\ fs_denied = {}
    /\ fb_path = <<>>
    /\ fb_items = <<>>
    /\ fb_height = 0
    /\ fb_selected = 0
    /\ fb_scroll_offset = 0
    /\ fb_result = <<"None", <<>>, 0>>
    /\ fb_key = None
    /\ fb_pc = "closed"

\* No SelectDialog exists.
SelectClosed ==
    /\ options = <<>>
    /\ sd_height = 0
    /\ sd_selected = 0
    /\ sd_scroll_offset = 0
    /\ sd_result = None
    /\ sd_key = None
    /\ sd_pc = "closed"

(***************************************************************************)
(* VDDTApp: the menu, _draw and the status fields                          *)
(***************************************************************************)
Header  == [type |-> "header", callback |-> None, shortcut |-> None]
Divider == [type |-> "divider", callback |-> None, shortcut |-> None]
Item(cb, key) == [type |-> "item", callback |-> cb, shortcut |-> key]

\* self.menus['main']['items'] of VDDTApp.__init__.
MainItems ==
    << Header,
       Item("_on_single_download", "1"),
       Item("_on_batch_download", "2"),
       Divider,
       Header,
       Item("_on_offline_transcode", "3"),
       Item("_on_view_logs", "4"),
       Divider,
       Header,
       Item("_on_settings_download", "5"),
       Item("_on_settings_network", "6"),
       Divider,
       Header,
       Item("_on_about", "A"),
       Item("_on_quit", "Q") >>

\* A status message or a progress label: the template of the text and the
\* numbers formatted into it.
Msg(tag, i, n) == [tag |-> tag, i |-> i, n |-> n]

\* i / n * 100, the whole percents of it.
Percent(i, n) == (i * 100) \div n

\* The terminal sizes (rows, columns) getmaxyx() reports to _draw: too few
\* rows, too few columns, rows for the first menu item only, rows for all.
AppSizes == {<<9, 80>>, <<24, 39>>, <<10, 80>>, <<24, 80>>}

\* selectable_indices of _draw on a terminal of h rows: item i is drawn in
\* row 4 + i, and the loop over the items stops at row h - 4.
SelectableIndices(h) ==
    SelectSeq([i \in 1 .. Len(MainItems) |-> i - 1],
              LAMBDA i : 4 + i < h - 4 /\ MainItems[i + 1].type = "item")

\* The terminal after erase(), and once getch() has returned: the dialogs of
\* the callbacks paint over the menu, and the next _draw starts with erase().
BlankScreen ==
    [small |-> FALSE, shortcuts |-> <<>>, msg |-> Msg(None, 0, 0), level |-> None,
     bar |-> <<>>]

\* What _draw puts on a terminal that is too small.
SmallScreen ==
    [small |-> TRUE, shortcuts |-> <<>>, msg |-> Msg(None, 0, 0), level |-> None,
     bar |-> <<>>]

\* The shortcut characters "(c)" that _draw puts before the items it draws.
Shortcuts(indices) == [j \in 1 .. Len(indices) |-> MainItems[indices[j] + 1].shortcut]

\* A _draw that leaves the progress bar out.
FullScreenNoBar(h) ==
    [small |-> FALSE, shortcuts |-> Shortcuts(SelectableIndices(h)),
     msg |-> status_msg, level |-> status_level, bar |-> <<>>]

\* What _draw puts on a terminal of h rows that is large enough: the menu
\* rows, the status message in the colour of its level, and the progress
\* bar with its label when progress > 0.
FullScreen(h) ==
    [small |-> FALSE,
     shortcuts |-> Shortcuts(SelectableIndices(h)),
     msg |-> status_msg,
     level |-> IF status_level \in {"info", "success", "error", "warning"}
               THEN status_level ELSE "info",
     bar |-> IF progress > 0 THEN <<progress, progress_label>> ELSE <<>>]

\* _draw on a terminal of h rows and w columns.
Draw(h, w) ==
    /\ app_pc = "draw"
    /\ IF h < 10 \/ w < 40
       THEN /\ screen' = SmallScreen
            /\ UNCHANGED <<has_selectable, selectable_indices>>
       ELSE /\ screen' = FullScreen(h)
            /\ has_selectable' = TRUE
            /\ selectable_indices' = SelectableIndices(h)
    /\ app_pc' = "input"
    /\ UNCHANGED <<running, menu_index, status_msg, status_level, progress,
                   progress_label, app_key, callback, dlg, mode, app_n, tasks,
                   status_src, progress_src>>

(***************************************************************************)
(* VDDTApp: the callbacks of the menu                                      *)
(***************************************************************************)
\* The option values of the SelectDialogs the callbacks open.
DialogOptions(d) ==
    CASE d = "single_mode"       -> <<"auto", "select", "audio">>
      [] d = "batch_mode"        -> <<"file", "help">>
      [] d = "batch_dl_mode"     -> <<"best", "audio">>
      [] d = "transcode_files"   -> <<"all", "one">>
      [] d = "transcode_format"  -> <<"copy", "amv", "720p", "1080p", "mp3", "custom">>
      [] d = "logs_mode"         -> <<"latest", "select", "clear">>
      [] d = "settings_download" -> <<"output_dir", "concurrent", "max_retries",
                                      "subtitles", "thumbnail", "danmaku">>
      [] d = "settings_network"  -> <<"proxy", "timeout", "user_agent">>
      [] d = "about_mode"        -> <<"about", "features", "deps", "license">>
      [] d = "quit_mode"         -> <<"quit", "save_quit", "cancel">>
      [] OTHER                   -> <<>>

\* What SelectDialog.show can return: the value of an option, or None.
DialogResults(d) == {DialogOptions(d)[i] : i \in 1 .. Len(DialogOptions(d))} \cup {None}

\* How the show() of the other dialogs of the callbacks can end, as
\* <<outcome, n>>: n is the number of links read or of files chosen.
ModalOutcomes(d) ==
    CASE d = "single_url"   -> {<<"empty", 0>>, <<"ok", 0>>}
      [] d = "batch_path"   -> {<<"empty", 0>>, <<"bad", 0>>}
                               \cup {<<"links", n>> : n \in 1 .. MaxLinks}
      [] d = "transcode_browser" ->
             {<<"cancel", 0>>, <<"raise", 0>>, <<"file", 1>>}
             \cup {<<"dir", n>> : n \in 0 .. MaxFiles}
      [] d = "transcode_custom"  -> {<<"empty", 0>>, <<"params", 0>>}
      [] d \in {"settings_input", "network_input"} ->
             {<<"accepted", 0>>, <<"rejected", 0>>}
      [] OTHER -> {<<"closed", 0>>}

\* The first dialog a callback opens, and whether it is a SelectDialog.
FirstDialog(cb) ==
    CASE cb = "_on_single_download"   -> "single_mode"
      [] cb = "_on_batch_download"    -> "batch_mode"
      [] cb = "_on_offline_transcode" -> "transcode_browser"
      [] cb = "_on_view_logs"         -> "logs_mode"
      [] cb = "_on_settings_download" -> "settings_download"
      [] cb = "_on_settings_network"  -> "settings_network"
      [] cb = "_on_about"             -> "about_mode"
      [] cb = "_on_quit"              -> "quit_mode"
      [] cb = "_show_help"            -> "help"

SelectDialogs ==
    {"single_mode", "batch_mode", "batch_dl_mode", "transcode_files",
     "transcode_format", "logs_mode", "settings_download", "settings_network",
     "about_mode", "quit_mode"}

DialogKind(d) == IF d \in SelectDialogs THEN "select" ELSE "modal"

\* A worker thread at its start.
NewTask(kind, n) ==
    [kind |-> kind, n |-> n, i |-> 1, success_count |-> 0,
     pc |-> CASE kind = "single" -> "download"
              [] kind = "batch" -> "item_status"
              [] kind = "transcode" -> "item_status"]

\* What a piece of a callback does before it blocks again or returns:
\* the status and progress it sets (at most one each), the thread it starts,
\* self.running after it, and where the callback goes.
Effect ==
    [status |-> <<>>, progress |-> <<>>, spawn |-> <<>>, running |-> TRUE,
     goto |-> "return", dlg |-> None, cb |-> callback, mode |-> None, n |-> 0]

Open(e, d) == [e EXCEPT !.goto = DialogKind(d), !.dlg = d]
SetStatus(e, msg, level) == [e EXCEPT !.status = <<[msg |-> msg, level |-> level]>>]
SetProgress(e, value, label) == [e EXCEPT !.progress = <<[value |-> value, label |-> label]>>]
Start(e, kind, n) == [e EXCEPT !.spawn = <<NewTask(kind, n)>>]

\* callback(): the callback cb runs up to its first dialog.
Call(cb) == Open([Effect EXCEPT !.cb = cb], FirstDialog(cb))

\* The end of _on_offline_transcode: the status, the progress and the thread.
StartTranscode(e) ==
    Start(SetProgress(SetStatus(e, Msg("transcode_prepare", 0, e.n), "info"),
                      0, Msg("preparing", 0, 0)),
          "transcode", e.n)

\* The callback goes on after its SelectDialog d returned r.
Continue(d, r) ==
    LET e == [Effect EXCEPT !.mode = r, !.n = app_n] IN
    IF d = "quit_mode" THEN
        IF r = "quit" THEN [e EXCEPT !.running = FALSE]
        ELSE IF r = "save_quit"
        THEN [SetStatus(e, Msg("config_saved", 0, 0), "success") EXCEPT !.running = FALSE]
        ELSE e
    ELSE IF r = None THEN e
    ELSE IF d = "single_mode" THEN Open(e, "single_url")
    ELSE IF d = "batch_mode" THEN
        IF r = "help" THEN Open(e, "batch_help") ELSE Open(e, "batch_path")
    ELSE IF d = "batch_dl_mode" THEN
        Start(SetStatus(e, Msg("batch_start", 0, app_n), "info"), "batch", app_n)
    ELSE IF d = "transcode_files" THEN
        Open([e EXCEPT !.n = IF r = "all" THEN app_n ELSE 1], "transcode_format")
    ELSE IF d = "transcode_format" THEN
        IF r = "custom" THEN Open(e, "transcode_custom")
        ELSE StartTranscode(e)
    ELSE IF d = "logs_mode" THEN Open(e, "logs_view")
    ELSE IF d = "settings_download" THEN
        IF r \in {"subtitles", "thumbnail", "danmaku"}
        THEN Open(SetStatus(e, Msg("download_setting_updated", 0, 0), "success"),
                  "settings_download")
        ELSE Open(e, "settings_input")
    ELSE IF d = "settings_network" THEN Open(e, "network_input")
    ELSE Open(e, "about_page")

\* The callback goes on after its dialog d, not a SelectDialog, ended with
\* the outcome o.
Resume(d, o) ==
    LET e == [Effect EXCEPT !.mode = mode, !.n = app_n] IN
    IF d = "single_url" THEN
        IF o[1] = "empty" THEN e
        ELSE Start(SetProgress(SetStatus(e, Msg("download_prepare", 0, 0), "info"),
                               0, Msg("downloading", 0, 0)),
                   "single", 1)
    ELSE IF d = "batch_path" THEN
        IF o[1] = "empty" THEN e
        ELSE IF o[1] = "bad" THEN Open(e, "batch_message")
        ELSE Open([e EXCEPT !.n = o[2]], "batch_dl_mode")
    ELSE IF d = "transcode_browser" THEN
        IF o[1] = "cancel" THEN e
        ELSE IF o[1] = "raise" THEN [e EXCEPT !.goto = "raise"]
        ELSE IF o[1] = "file" THEN Open([e EXCEPT !.n = 1], "transcode_format")
        ELSE IF o[2] = 0 THEN Open(e, "transcode_message")
        ELSE Open([e EXCEPT !.n = o[2]], "transcode_files")
    ELSE IF d = "transcode_custom" THEN
        IF o[1] = "empty" THEN e ELSE StartTranscode(e)
    ELSE IF d = "settings_input" THEN
        Open(IF o[1] = "accepted"
             THEN SetStatus(e, Msg("download_setting_updated", 0, 0), "success")
             ELSE e,
             "settings_download")
    ELSE IF d = "network_input" THEN
        Open(IF o[1] = "accepted"
             THEN SetStatus(e, Msg("network_setting_updated", 0, 0), "success")
             ELSE e,
             "settings_network")
    ELSE e

\* The main thread performs e for the key k of _handle_input: _set_status,
\* _set_progress, Thread.start, and then the callback blocks in its next
\* dialog, returns to the loop of run() or raises.  No more than cap
\* threads are alive.  What _draw painted is no longer looked at.
ApplyWithin(e, k, cap) ==
    /\ Len(tasks) + Len(e.spawn) <= cap
    /\ status_msg' = IF Len(e.status) = 0 THEN status_msg ELSE e.status[1].msg
    /\ status_level' = IF Len(e.status) = 0 THEN status_level ELSE e.status[1].level
    /\ status_src' = IF Len(e.status) = 0 THEN status_src ELSE "main"
    /\ progress' = IF Len(e.progress) = 0 THEN progress ELSE e.progress[1].value
    /\ progress_label' = IF Len(e.progress) = 0 THEN progress_label
                         ELSE e.progress[1].label
    /\ progress_src' = IF Len(e.progress) = 0 THEN progress_src ELSE "main"
    /\ tasks' = tasks \o e.spawn
    /\ running' = e.running
    /\ app_pc' = CASE e.goto = "raise" -> "raised"
                   [] e.goto = "return" -> IF e.running THEN "draw" ELSE "exited"
                   [] OTHER -> e.goto
    /\ IF e.goto = "return" /\ e.running
       THEN /\ app_key' = None
            /\ callback' = None
            /\ dlg' = None
            /\ mode' = None
            /\ app_n' = 0
       ELSE /\ app_key' = k
            /\ callback' = e.cb
            /\ dlg' = e.dlg
            /\ mode' = e.mode
            /\ app_n' = e.n
    /\ screen' = BlankScreen
    /\ UNCHANGED <<has_selectable, selectable_indices>>

Apply(e, k) == ApplyWithin(e, k, MaxTasks)

(***************************************************************************)
(* VDDTApp: _handle_input                                                  *)
(***************************************************************************)
\* The keys getch() can deliver to _handle_input; "TIMEOUT" is -1 and "x"
\* any key that no branch handles.
AppKeys ==
    {"TIMEOUT", "UP", "k", "DOWN", "j", "ENTER", "q", "Q", "h", "H",
     "1", "2", "3", "4", "5", "6", "a", "A", "x"}

\* self.menu_index after the Up and after the Down key.
MenuUpIndex == (menu_index - 1) % Len(selectable_indices)
MenuDownIndex == (menu_index + 1) % Len(selectable_indices)

\* The callback of the item at position index of selectable.
CallbackAt(index) == MainItems[PyIndex(selectable_indices, index) + 1].callback

\* _quick_select(index).
QuickSelect(index) ==
    IF index < Len(selectable_indices) THEN Call(CallbackAt(index)) ELSE Effect

\* What _handle_input does with the key k, self.menu_index apart.
HandleEffect(k) ==
    IF k = "TIMEOUT" THEN Effect
    ELSE IF ~has_selectable THEN [Effect EXCEPT !.goto = "raise"]
    ELSE IF k \in {"UP", "k", "DOWN", "j"} THEN Effect
    ELSE IF k = "ENTER" THEN
        IF Len(selectable_indices) = 0 THEN Effect
        ELSE IF ~PyInRange(selectable_indices, menu_index)
        THEN [Effect EXCEPT !.goto = "raise"]
        ELSE Call(CallbackAt(menu_index))
    ELSE IF k \in {"q", "Q"} THEN Call("_on_quit")
    ELSE IF k \in {"h", "H"} THEN Call("_show_help")
    ELSE IF k \in {"1", "2", "3", "4", "5", "6"} THEN QuickSelect(DigitIndex(k))
    ELSE IF k \in {"a", "A"} THEN QuickSelect(7)
    ELSE Effect

\* _handle_input with the key k, up to the return of _handle_input or to the
\* first dialog of the callback it calls.
HandleInputWithin(k, cap) ==
    /\ app_pc = "input"
    /\ menu_index' =
          IF has_selectable /\ Len(selectable_indices) > 0 /\ k \in {"UP", "k"}
          THEN MenuUpIndex
          ELSE IF has_selectable /\ Len(selectable_indices) > 0 /\ k \in {"DOWN", "j"}
          THEN MenuDownIndex
          ELSE menu_index
    /\ ApplyWithin(HandleEffect(k), k, cap)

HandleInput(k) == HandleInputWithin(k, MaxTasks)

\* The SelectDialog of the callback returns r.
SelectReturnsWithin(r, cap) ==
    /\ app_pc = "select"
    /\ r \in DialogResults(dlg)
    /\ ApplyWithin(Continue(dlg, r), app_key, cap)
    /\ UNCHANGED menu_index

SelectReturns(r) == SelectReturnsWithin(r, MaxTasks)

\* Another dialog of the callback ends with the outcome o.
ModalReturnsWithin(o, cap) ==
    /\ app_pc = "modal"
    /\ o \in ModalOutcomes(dlg)
    /\ ApplyWithin(Resume(dlg, o), app_key, cap)
    /\ UNCHANGED menu_index

ModalReturns(o) == ModalReturnsWithin(o, MaxTasks)

(***************************************************************************)
(* VDDTApp: the worker threads                                             *)
(***************************************************************************)
\* One step of a worker thread: at most one call of _set_status or of
\* _set_progress, whether it is the last such call of the thread, and the
\* thread after it (<<>> when its function returns).  ok tells whether the
\* download or the ffmpeg run of the step ended without an exception.
Write == [status |-> <<>>, progress |-> <<>>, final |-> FALSE, next |-> <<>>]

At(task, pc) == <<[task EXCEPT !.pc = pc]>>

\* download_task of _on_single_download.
SingleStep(task, ok) ==
    IF task.pc = "download" THEN
        IF ok
        THEN [Write EXCEPT !.status = <<[msg |-> Msg("download_done", 0, 0),
                                         level |-> "success"]>>,
                           !.final = TRUE, !.next = At(task, "progress")]
        ELSE [Write EXCEPT !.status = <<[msg |-> Msg("download_failed", 0, 0),
                                         level |-> "error"]>>,
                           !.final = TRUE]
    ELSE [Write EXCEPT !.progress = <<[value |-> 100, label |-> Msg("done", 0, 0)]>>,
                       !.final = TRUE]

\* The thread after the turn i of its loop.
AfterItem(task, again, after) ==
    IF task.i < task.n THEN <<[task EXCEPT !.i = task.i + 1, !.pc = again]>>
    ELSE At(task, after)

\* batch_task of _on_batch_download.
BatchStep(task, ok) ==
    IF task.pc = "item_status" THEN
        IF task.i = 1 /\ ~ok
        THEN [Write EXCEPT !.status = <<[msg |-> Msg("batch_failed", 0, 0),
                                         level |-> "error"]>>,
                           !.final = TRUE]
        ELSE [Write EXCEPT !.status = <<[msg |-> Msg("batch_item", task.i, task.n),
                                         level |-> "info"]>>,
                           !.next = At(task, "item_progress")]
    ELSE IF task.pc = "item_progress" THEN
        [Write EXCEPT !.progress = <<[value |-> Percent(task.i, task.n),
                                      label |-> Msg("batch_label", task.i, task.n)]>>,
                      !.next = AfterItem(task, "item_status", "final_status")]
    ELSE IF task.pc = "final_status" THEN
        [Write EXCEPT !.status = <<[msg |-> Msg("batch_done", 0, 0),
                                    level |-> "success"]>>,
                      !.final = TRUE, !.next = At(task, "final_progress")]
    ELSE [Write EXCEPT !.progress = <<[value |-> 100, label |-> Msg("done", 0, 0)]>>,
                       !.final = TRUE]

\* A loop over the files that stops at the first file whose run raised.
TranscodeStepAbort(task, ok) ==
    IF task.pc = "item_status" THEN
        [Write EXCEPT !.status = <<[msg |-> Msg("transcode_item", task.i, task.n),
                                    level |-> "info"]>>,
                      !.next = At(task, "item_run")]
    ELSE IF task.pc = "item_run" THEN
        IF ok
        THEN [Write EXCEPT
                 !.progress = <<[value |-> Percent(task.i, task.n),
                                 label |-> Msg("transcode_label", task.i, task.n)]>>,
                 !.next = AfterItem([task EXCEPT !.success_count = @ + 1],
                                    "item_status", "final_progress")]
        ELSE [Write EXCEPT !.next = At(task, "final_progress")]
    ELSE IF task.pc = "final_progress" THEN
        [Write EXCEPT !.progress = <<[value |-> 100, label |-> Msg("done", 0, 0)]>>,
                      !.final = TRUE, !.next = At(task, "final_status")]
    ELSE IF task.success_count = task.n
    THEN [Write EXCEPT !.status = <<[msg |-> Msg("transcode_ok", 0, task.n),
                                     level |-> "success"]>>,
                       !.final = TRUE]
    ELSE [Write EXCEPT !.status = <<[msg |-> Msg("transcode_partial",
                                                 task.success_count, task.n),
                                     level |-> "warning"]>>,
                       !.final = TRUE]

\* transcode_task of _on_offline_transcode.
TranscodeStep(task, ok) ==
    IF task.pc = "item_status" THEN
        [Write EXCEPT !.status = <<[msg |-> Msg("transcode_item", task.i, task.n),
                                    level |-> "info"]>>,
                      !.next = At(task, "item_run")]
    ELSE IF task.pc = "item_run" THEN
        IF ok
        THEN [Write EXCEPT
                 !.progress = <<[value |-> Percent(task.i, task.n),
                                 label |-> Msg("transcode_label", task.i, task.n)]>>,
                 !.next = AfterItem([task EXCEPT !.success_count = @ + 1],
                                    "item_status", "final_progress")]
        ELSE [Write EXCEPT !.next = AfterItem(task, "item_status", "final_progress")]
    ELSE IF task.pc = "final_progress" THEN
        [Write EXCEPT !.progress = <<[value |-> 100, label |-> Msg("done", 0, 0)]>>,
                      !.final = TRUE, !.next = At(task, "final_status")]
    ELSE IF task.success_count = task.n
    THEN [Write EXCEPT !.status = <<[msg |-> Msg("transcode_ok", 0, task.n),
                                     level |-> "success"]>>,
                       !.final = TRUE]
    ELSE [Write EXCEPT !.status = <<[msg |-> Msg("transcode_partial",
                                                 task.success_count, task.n),
                                     level |-> "warning"]>>,
                       !.final = TRUE]

\* The steps whose outcome depends on a download or on an ffmpeg run.
Fallible(task) ==
    \/ task.kind = "single" /\ task.pc = "download"
    \/ task.kind = "batch" /\ task.pc = "item_status" /\ task.i = 1
    \/ task.kind = "transcode" /\ task.pc = "item_run"

RemoveAt(seq, t) == SubSeq(seq, 1, t - 1) \o SubSeq(seq, t + 1, Len(seq))

\* The thread t makes its next step.
TaskStep(t, ok) ==
    LET task == tasks[t]
        w == CASE task.kind = "single" -> SingleStep(task, ok)
               [] task.kind = "batch" -> BatchStep(task, ok)
               [] task.kind = "transcode" -> TranscodeStep(task, ok)
        src == IF w.final THEN "final" ELSE "task"
    IN
    /\ ok \/ Fallible(task)
    /\ status_msg' = IF Len(w.status) = 0 THEN status_msg ELSE w.status[1].msg
    /\ status_level' = IF Len(w.status) = 0 THEN status_level ELSE w.status[1].level
    /\ status_src' = IF Len(w.status) = 0 THEN status_src ELSE src
    /\ progress' = IF Len(w.progress) = 0 THEN progress ELSE w.progress[1].value
    /\ progress_label' = IF Len(w.progress) = 0 THEN progress_label
                         ELSE w.progress[1].label
    /\ progress_src' = IF Len(w.progress) = 0 THEN progress_src ELSE src
    /\ tasks' = IF Len(w.next) = 0 THEN RemoveAt(tasks, t)
                ELSE [tasks EXCEPT ![t] = w.next[1]]
    /\ UNCHANGED <<running, menu_index, has_selectable, selectable_indices, screen,
                   app_pc, app_key, callback, dlg, mode, app_n>>

\* No VDDTApp exists.
AppClosed ==
    /\ running = FALSE
    /\ menu_index = 0
    /\ has_selectable = FALSE
    /\ selectable_indices = <<>>
    /\ status_msg = Msg(None, 0, 0)
    /\ status_level = None
    /\ progress = 0
    /\ progress_label = Msg(None, 0, 0)
    /\ screen = BlankScreen
    /\ app_pc = "closed"
    /\ app_key = None
    /\ callback = None
    /\ dlg = None
    /\ mode = None
    /\ app_n = 0
    /\ tasks = <<>>
    /\ status_src = "main"
    /\ progress_src = "main"

(***************************************************************************)
(* The batch mode reading its link-list file                               *)
(***************************************************************************)
\* The characters of a line before its newline: a blank, the comment mark,
\* and "u" for every other character.
LineChars == {" ", "#", "u"}

\* str.strip(): the string without its leading and trailing whitespace.
RECURSIVE LStrip(_)
LStrip(str) ==
    IF Len(str) > 0 /\ str[1] \in {" ", "\n"} THEN LStrip(Tail(str)) ELSE str
RECURSIVE RStrip(_)
RStrip(str) ==
    IF Len(str) > 0 /\ str[Len(str)] \in {" ", "\n"}
    THEN RStrip(SubSeq(str, 1, Len(str) - 1)) ELSE str
Strip(str) == RStrip(LStrip(str))

\* str.startswith(c) for a character c.
StartsWith(str, c) == Len(str) > 0 /\ str[1] = c

\* The test of the comprehension: line.strip() and not line.startswith('#').
KeepsLine(line) == Len(Strip(line)) > 0 /\ ~StartsWith(line, "#")

\* [line.strip() for line in f if line.strip() and not line.startswith('#')]
RECURSIVE ReadLinks(_)
ReadLinks(lines) ==
    IF lines = <<>> THEN <<>>
    ELSE (IF KeepsLine(Head(lines)) THEN <<Strip(Head(lines))>> ELSE <<>>)
         \o ReadLinks(Tail(lines))

\* The source files that read a link list with this comprehension.
BatchReaders ==
    {"DEBUG/tui.py", "VDDT.py", "VDDT-beta/main.py", "VDDT-beta/DEBUG/main.py"}

\* The files of at most MaxFileLines lines, as `for line in f` yields them:
\* every line ends with its newline, the last one only if the file does.
LinkFiles ==
    LET bodies == UNION {[1 .. m -> LineChars] : m \in 0 .. MaxLineLen}
        whole == {b \o <<"\n">> : b \in bodies}
        last == whole \cup (bodies \ {<<>>})
    IN {<<>>} \cup
       UNION {{h \o <<l>> : h \in [1 .. m - 1 -> whole], l \in last} :
               m \in 1 .. MaxFileLines}

\* The file is read: links is built, and an empty list ends the batch mode.
BatchRead ==
    /\ bf_pc = "open"
    /\ bf_links' = ReadLinks(bf_file)
    /\ bf_pc' = IF ReadLinks(bf_file) = <<>> THEN "nolinks" ELSE "loop"
    /\ UNCHANGED <<bf_reader, bf_file, bf_handed>>
    /\ UNCHANGED <<termVars, sdVars, fsVars, fbVars, appVars, opVars, cfVars, pfVars, inVars>>

\* One turn of the loop over links: the next url goes to the downloader
\* (ydl.download([url]) in the TUI, handle_single_download(url, ...) elsewhere).
BatchHand ==
    /\ bf_pc = "loop"
    /\ bf_handed' = Append(bf_handed, bf_links[Len(bf_handed) + 1])
    /\ bf_pc' = IF Len(bf_handed) + 1 = Len(bf_links) THEN "done" ELSE "loop"
    /\ UNCHANGED <<bf_reader, bf_file, bf_links>>
    /\ UNCHANGED <<termVars, sdVars, fsVars, fbVars, appVars, opVars, cfVars, pfVars, inVars>>

\* No batch mode runs.
BatchClosed ==
    /\ bf_reader = None
    /\ bf_file = <<>>
    /\ bf_links = <<>>
    /\ bf_handed = <<>>
    /\ bf_pc = "closed"

(***************************************************************************)
(* The option dictionaries handed to the download engine                   *)
(***************************************************************************)
\* A dict is a function from its keys.
EmptyDict == [k \in {} |-> None]
\* d[k] = v
Put(d, k, v) == [x \in DOMAIN d \cup {k} |-> IF x = k THEN v ELSE d[x]]
\* d.update(e)
Update(d, e) ==
    [x \in DOMAIN d \cup DOMAIN e |-> IF x \in DOMAIN e THEN e[x] ELSE d[x]]
\* ydl_opts['postprocessors'].append(p), p named by its 'key'
AppendPP(d, p) == Put(d, "postprocessors", Append(d["postprocessors"], p))

\* os.path.join(dir, name) for a relative name.
Join(dir, name) == <<dir, name>>

OutputDir == "VDDT_Downloads"
\* f"{date_str}_{author}_{title}.%(ext)s"
InfoTemplate == "{date_str}_{author}_{title}.%(ext)s"
ProxyUrl == "http://127.0.0.1:7890"
CookiePath == "cookies/bilibili.com.ck"
Urls == {"", "https://www.bilibili.com/video/BV1", "https://example.com/watch"}
\* 'bilibili.com' in url.lower()
IsBilibili(url) == url = "https://www.bilibili.com/video/BV1"

\* The flows that build option dictionaries, named by the file that starts
\* them: the command-line mains, the class DownloadHandler, the TUI tasks.
CliFlows == {"VDDT.py", "VDDT-beta/main.py", "VDDT-beta/DEBUG/main.py"}
ClassFlow == "DEBUG/downloader_handler.py"
HandlerFlows == CliFlows \cup {ClassFlow}
TuiFlows == {"download_task", "batch_task"}

\* DownloadMode: VIDEO_AUDIO, VIDEO_ONLY, AUDIO_ONLY, MANUAL_SELECT; the
\* function handlers read the same numbers as strings.
DownloadModes == {"1", "2", "3", "4"}

\* One use of the engine: YoutubeDL(opts) and the api called on it.
EngineCall(by, api, opts) == [by |-> by, api |-> api, opts |-> opts]

\* InputDialog.show(): None on Q; else the text typed, the default when the
\* text is empty, and None when that is empty too.
InputShow(default, entry) ==
    IF entry = "cancel" THEN None
    ELSE LET value == IF entry # "" THEN entry ELSE default
         IN IF value # "" THEN value ELSE None

\* _on_settings_network, item 'proxy'.
SetProxy(entry) ==
    /\ op_flow \in TuiFlows
    /\ op_pc = "menu"
    /\ LET default == IF op_proxy \in {None, ""} THEN "" ELSE op_proxy
           new_val == InputShow(default, entry)
       IN op_proxy' = IF new_val # None
                      THEN (IF new_val # "" THEN new_val ELSE "")
                      ELSE op_proxy
    /\ UNCHANGED <<op_flow, op_pc, op_template, op_url, op_cookie, op_base,
                   op_opts, op_mode, op_format, op_info, op_custom, op_calls,
                   op_left, op_formats, op_result, op_preset, op_engine>>
    /\ op_entry' = entry
    /\ UNCHANGED <<termVars, sdVars, fsVars, fbVars, appVars, bfVars, cfVars, pfVars, inVars>>

\* ydl_opts of download_task and of batch_task for the mode m.
TaskOpts(m) ==
    LET base == [quiet |-> "True", no_warnings |-> "True", ignoreerrors |-> "True",
                 nocheckcertificate |-> "True",
                 outtmpl |-> Join(OutputDir, "%(title)s.%(ext)s")]
    IN IF m = "audio"
       THEN Update(base, [format |-> "bestaudio",
                          postprocessors |-> <<"FFmpegExtractAudio">>])
       ELSE Update(base, [format |-> "bestvideo+bestaudio/best",
                          merge_output_format |-> "mp4"])

\* download_task of _on_single_download.
DownloadTask(m) ==
    /\ op_flow = "download_task"
    /\ op_pc = "menu"
    /\ op_opts' = TaskOpts(m)
    /\ op_calls' = Append(op_calls, EngineCall("download_task", "download", TaskOpts(m)))
    /\ op_mode' = m
    /\ op_pc' = "done"
    /\ UNCHANGED <<op_flow, op_proxy, op_template, op_url, op_cookie, op_base,
                   op_format, op_info, op_custom, op_left, op_formats, op_result,
                   op_entry, op_preset, op_engine>>
    /\ UNCHANGED <<termVars, sdVars, fsVars, fbVars, appVars, bfVars, cfVars, pfVars, inVars>>

\* batch_task of _on_batch_download: the dict is built once for n links.
BatchTask(m, n) ==
    /\ op_flow = "batch_task"
    /\ op_pc = "menu"
    /\ op_opts' = TaskOpts(m)
    /\ op_mode' = m
    /\ op_left' = n
    /\ op_pc' = "batch"
    /\ UNCHANGED <<op_flow, op_proxy, op_template, op_url, op_cookie, op_base,
                   op_format, op_info, op_custom, op_calls, op_formats, op_result,
                   op_entry, op_preset, op_engine>>
    /\ UNCHANGED <<termVars, sdVars, fsVars, fbVars, appVars, bfVars, cfVars, pfVars, inVars>>

\* One ydl.download([url]) of batch_task.
BatchDownload ==
    /\ op_pc = "batch"
    /\ op_calls' = Append(op_calls, EngineCall("batch_task", "download", op_opts))
    /\ op_left' = op_left - 1
    /\ op_pc' = IF op_left = 1 THEN "done" ELSE "batch"
    /\ UNCHANGED <<op_flow, op_proxy, op_template, op_url, op_cookie, op_base,
                   op_opts, op_mode, op_format, op_info, op_custom, op_formats,
                   op_result, op_entry, op_preset, op_engine>>
    /\ UNCHANGED <<termVars, sdVars, fsVars, fbVars, appVars, bfVars, cfVars, pfVars, inVars>>

\* DownloaderCore._get_base_opts
BaseOpts ==
    [user_agent |-> "config.network.user_agent",
     quiet |-> "not config.ui.verbose",
     no_warnings |-> "not config.ui.verbose",
     ignoreerrors |-> "True",
     nocheckcertificate |-> "True",
     socket_timeout |-> "config.network.timeout"]

\* The dict DownloaderCore.get_format_lists gives to YoutubeDL.
CoreExtractOpts(ydl_opts) == Update(BaseOpts, ydl_opts)

\* The dict DownloaderCore.download gives to YoutubeDL.
CoreDownloadOpts(format_id, ydl_opts, info) ==
    LET opts == Update(BaseOpts, ydl_opts)
        named == Put(opts, "outtmpl",
                     Join(OutputDir, IF info THEN InfoTemplate ELSE "%(title)s.%(ext)s"))
    IN Update(named,
              [format |-> format_id,
               progress_hooks |-> "progress_hook",
               concurrent_fragment_downloads |-> "config.download.concurrent_downloads",
               fragment_retries |-> "config.download.max_retries",
               retries |-> "config.download.max_retries"])

\* The function download(): ydl_opts, the caller's dict, after its 'outtmpl'
\* is set.
CliNamedOpts(ydl_opts, info) ==
    Put(ydl_opts, "outtmpl",
        Join(OutputDir, IF info THEN InfoTemplate ELSE "%(title)s.%(ext)s"))

\* The function download(): ydl_opts_download.
CliDownloadOpts(format_id, ydl_opts, info) ==
    LET named == CliNamedOpts(ydl_opts, info)
    IN Update(named,
              [format |-> format_id,
               progress_hooks |-> "progress_hook",
               concurrent_fragment_downloads |-> "5",
               fragment_retries |-> "10",
               retries |-> "10",
               postprocessors |-> IF "postprocessors" \in DOMAIN named
                                  THEN named["postprocessors"] ELSE <<>>])

\* ydl_opts of a command-line main, built from the value cookie_file has
\* there.
MainOpts(flow, cookie_file, exists) ==
    LET common ==
            [cookiefile |-> IF cookie_file # None /\ exists THEN cookie_file ELSE None,
             user_agent |-> "Mozilla/5.0",
             quiet |-> "False",
             no_warnings |-> "True",
             ignoreerrors |-> "True",
             nocheckcertificate |-> "True"]
    IN IF flow = "VDDT.py"
       THEN Put(common, "http_headers", "Referer: https://www.bilibili.com/")
       ELSE common

\* Choice '1' of a command-line main: the url is read, cookie_file takes what
\* prepare_cookies_netscape returns, and a non-empty url goes to
\* handle_single_download with ydl_opts.
EnterUrl(url, found) ==
    /\ op_flow \in CliFlows
    /\ op_pc = "main"
    /\ op_url' = url
    /\ op_cookie' = IF url # "" /\ found THEN CookiePath ELSE None
    /\ op_pc' = IF url = "" THEN "returned" ELSE "handle"
    /\ UNCHANGED <<op_flow, op_proxy, op_template, op_base, op_opts, op_mode,
                   op_format, op_info, op_custom, op_calls, op_left, op_formats,
                   op_result, op_entry, op_preset, op_engine>>
    /\ UNCHANGED <<termVars, sdVars, fsVars, fbVars, appVars, bfVars, cfVars, pfVars, inVars>>

\* handle_single_download up to the mode: the copy of base_ydl_opts with an
\* empty post-processor list; no mode (None) ends it.
Begin(m) ==
    /\ op_flow \in HandlerFlows
    /\ op_pc = "handle"
    /\ op_opts' = Put(op_base, "postprocessors", <<>>)
    /\ op_mode' = m
    /\ op_pc' = IF m = None THEN "returned" ELSE "info"
    /\ op_result' = IF m = None /\ op_flow = ClassFlow THEN "False" ELSE op_result
    /\ UNCHANGED <<op_flow, op_proxy, op_template, op_url, op_cookie, op_base,
                   op_format, op_info, op_custom, op_calls, op_left, op_formats,
                   op_entry, op_preset, op_engine>>
    /\ UNCHANGED <<termVars, sdVars, fsVars, fbVars, appVars, bfVars, cfVars, pfVars, inVars>>

\* get_format_lists, by how the engine's extract_info ended: with an
\* exception ("DownloadError", "ExtractorError", any other "Exception"), with
\* no info ("no_info"), with an info without formats ("no_formats") or with
\* "formats". Every exception is caught and gives (None, []).
GetFormatLists(outcome) ==
    CASE outcome \in {"DownloadError", "ExtractorError", "Exception", "no_info"} ->
            [info |-> FALSE, formats |-> FALSE, raised |-> FALSE]
      [] outcome = "no_formats" -> [info |-> TRUE, formats |-> FALSE, raised |-> FALSE]
      [] outcome = "formats" -> [info |-> TRUE, formats |-> TRUE, raised |-> FALSE]

\* handle_single_download going on to the format step whatever the format
\* list holds.
AfterInfoAlways(m, formats) == "format"

\* handle_single_download after _get_video_info: without formats only the
\* audio mode goes on.
AfterInfo(m, formats) == IF m # "3" /\ ~formats THEN "returned" ELSE "format"

\* _get_video_info / the first get_format_lists of the function handlers,
\* which mode '3' skips there.
GetInfo(outcome) ==
    /\ op_flow \in HandlerFlows
    /\ op_pc = "info"
    /\ LET r == GetFormatLists(outcome) IN
       IF op_flow \in CliFlows /\ op_mode = "3"
       THEN /\ UNCHANGED <<op_calls, op_info, op_formats, op_engine, op_result>>
            /\ op_pc' = "format"
       ELSE /\ op_calls' = Append(op_calls,
                  IF op_flow = ClassFlow
                  THEN EngineCall("DownloaderCore.get_format_lists", "extract_info",
                                  CoreExtractOpts(op_opts))
                  ELSE EngineCall("get_format_lists", "extract_info", op_opts))
            /\ op_engine' = outcome
            /\ op_info' = IF op_mode = "3" THEN r.info ELSE r.formats
            /\ op_formats' = IF op_mode = "3" THEN FALSE ELSE r.formats
            /\ op_pc' = IF r.raised THEN "raised" ELSE AfterInfo(op_mode, r.formats)
            /\ op_result' = IF ~r.raised /\ AfterInfo(op_mode, r.formats) = "returned"
                                /\ op_flow = ClassFlow
                            THEN "False" ELSE op_result
    /\ UNCHANGED <<op_flow, op_proxy, op_template, op_url, op_cookie, op_base,
                   op_opts, op_mode, op_format, op_custom, op_left, op_entry,
                   op_preset>>
    /\ UNCHANGED <<termVars, sdVars, fsVars, fbVars, appVars, bfVars, cfVars, pfVars, inVars>>

\* What the format step meets: for mode 1 whether a best video exists, for
\* modes 2 and 4 the kind of the entry picked or no pick, for mode 3 of the
\* function handlers how its extraction ended.
FormatPicks(flow, m) ==
    CASE m = "1" -> {"best_video", "no_video"}
      [] m = "2" -> {"video_only", "none"}
      [] m = "3" -> IF flow = ClassFlow THEN {"audio"} ELSE {"formats", "no_info"}
      [] m = "4" -> {"video_only", "audio_only", "both"}
                       \cup (IF flow = ClassFlow THEN {"none"} ELSE {})
      [] OTHER -> {}

\* _select_format / the mode branches of the function handlers.
SelectFormat(pick) ==
    /\ op_flow \in HandlerFlows
    /\ op_pc = "format"
    /\ pick \in FormatPicks(op_flow, op_mode)
    /\ CASE op_mode = "1" ->
              /\ op_format' = IF pick = "best_video" THEN "{best}+bestaudio/best" ELSE "best"
              /\ op_opts' = IF pick = "best_video"
                            THEN Put(op_opts, "merge_output_format", "mp4") ELSE op_opts
              /\ op_pc' = "filename"
              /\ UNCHANGED <<op_calls, op_info, op_engine>>
         [] op_mode = "2" ->
              /\ op_format' = IF pick = "none" THEN None ELSE "{id}"
              /\ op_opts' = IF pick # "none" /\ op_flow \in CliFlows
                            THEN Put(op_opts, "format", "{id}") ELSE op_opts
              /\ op_pc' = IF pick = "none" THEN "returned" ELSE "filename"
              /\ UNCHANGED <<op_calls, op_info, op_engine>>
         [] op_mode = "3" ->
              /\ op_format' = "bestaudio"
              /\ op_opts' = AppendPP(op_opts, "FFmpegExtractAudio")
              /\ IF op_flow = ClassFlow
                 THEN UNCHANGED <<op_calls, op_info, op_engine>>
                 ELSE /\ op_calls' = Append(op_calls,
                            EngineCall("get_format_lists", "extract_info",
                                       AppendPP(op_opts, "FFmpegExtractAudio")))
                      /\ op_info' = GetFormatLists(pick).info
                      /\ op_engine' = pick
              /\ op_pc' = "filename"
         [] op_mode = "4" ->
              /\ op_format' = CASE pick = "none" -> None
                                [] pick = "video_only" -> "{id}+bestaudio/best"
                                [] OTHER -> "{id}"
              /\ op_opts' = IF pick = "video_only"
                            THEN Put(op_opts, "merge_output_format", "mp4") ELSE op_opts
              /\ op_pc' = IF pick = "none" THEN "returned" ELSE "filename"
              /\ UNCHANGED <<op_calls, op_info, op_engine>>
    /\ op_result' = IF pick = "none" /\ op_flow = ClassFlow THEN "False" ELSE op_result
    /\ UNCHANGED <<op_flow, op_proxy, op_template, op_url, op_cookie, op_base,
                   op_mode, op_custom, op_left, op_formats, op_entry, op_preset>>
    /\ UNCHANGED <<termVars, sdVars, fsVars, fbVars, appVars, bfVars, cfVars, pfVars, inVars>>

\* _configure_filename / the template question of the function handlers.
\* op_custom keeps the template T typed after a yes.
ConfigureFilename(yes, custom) ==
    /\ op_flow \in HandlerFlows
    /\ op_pc = "filename"
    /\ op_opts' =
          IF ~yes
          THEN (IF op_flow = ClassFlow /\ op_template # ""
                THEN Put(op_opts, "outtmpl", Join(OutputDir, op_template))
                ELSE op_opts)
          ELSE (IF custom # ""
                THEN Put(op_opts, "outtmpl", Join(OutputDir, custom))
                ELSE op_opts)
    /\ op_custom' = IF yes /\ custom # "" THEN custom ELSE None
    /\ op_pc' = "extras"
    /\ UNCHANGED <<op_flow, op_proxy, op_template, op_url, op_cookie, op_base,
                   op_mode, op_format, op_info, op_calls, op_left, op_formats,
                   op_result, op_entry, op_preset, op_engine>>
    /\ UNCHANGED <<termVars, sdVars, fsVars, fbVars, appVars, bfVars, cfVars, pfVars, inVars>>

\* _configure_extras / the subtitle, thumbnail and danmaku questions; the
\* beta handlers have no danmaku question and no transcode step.
ConfigureExtras(subs, thumb, danmaku) ==
    /\ op_flow \in HandlerFlows
    /\ op_pc = "extras"
    /\ LET a == IF subs
                THEN Update(op_opts,
                            [writesubtitles |-> "True",
                             writeautomaticsub |-> "True",
                             subtitleslangs |->
                                 IF op_flow = ClassFlow
                                 THEN "config.download.subtitle_languages"
                                 ELSE "zh-Hans,zh-CN,en,all",
                             subtitlesformat |-> "srt/vtt"])
                ELSE op_opts
           b == IF thumb
                THEN AppendPP(AppendPP(Put(a, "writethumbnail", "True"),
                                       "EmbedThumbnail"), "FFmpegMetadata")
                ELSE a
           c == IF op_flow \in {ClassFlow, "VDDT.py"} /\ IsBilibili(op_url) /\ danmaku
                THEN Put(b, "writecomments", "True")
                ELSE b
       IN op_opts' = c
    /\ op_pc' = IF op_flow \in {ClassFlow, "VDDT.py"} THEN "transcode" ELSE "download"
    /\ UNCHANGED <<op_flow, op_proxy, op_template, op_url, op_cookie, op_base,
                   op_mode, op_format, op_info, op_custom, op_calls, op_left,
                   op_formats, op_result, op_entry, op_preset, op_engine>>
    /\ UNCHANGED <<termVars, sdVars, fsVars, fbVars, appVars, bfVars, cfVars, pfVars, inVars>>

\* The video conversion both handlers configure from pp_args.
WithConvertor(d, choice) ==
    AppendPP(Put(AppendPP(d, "FFmpegVideoConvertor"),
                 "postprocessor_args", "args of " \o choice),
             "FFmpegMetadata")

\* _configure_transcode / the transcode question of VDDT.py. The answers: no
\* transcoding, a preset '1'..'4', or '5' with a height ("5p"), a bitrate
\* ("5k") or any other text ("5x"), after which VDDT.py asks again.
ConfigureTranscode(choice) ==
    /\ op_flow \in {ClassFlow, "VDDT.py"}
    /\ op_pc = "transcode"
    /\ ~(op_flow = "VDDT.py" /\ choice = "5x")
    /\ op_opts' =
          CASE choice \in {"no", "5x"} -> op_opts
            [] choice = "3" -> AppendPP(op_opts, "FFmpegExtractAudio")
            [] choice \in {"1", "2", "4"} ->
                  WithConvertor(Put(op_opts, "merge_output_format", "mp4"), choice)
            [] choice \in {"5p", "5k"} ->
                  IF op_flow = ClassFlow
                  THEN WithConvertor(Put(op_opts, "merge_output_format", "mp4"), choice)
                  ELSE WithConvertor(op_opts, choice)
    /\ op_format' = IF choice = "3" /\ op_flow = "VDDT.py" THEN "bestaudio" ELSE op_format
    /\ op_pc' = "download"
    /\ op_preset' = choice
    /\ UNCHANGED <<op_flow, op_proxy, op_template, op_url, op_cookie, op_base,
                   op_mode, op_info, op_custom, op_calls, op_left, op_formats,
                   op_result, op_entry, op_engine>>
    /\ UNCHANGED <<termVars, sdVars, fsVars, fbVars, appVars, bfVars, cfVars, pfVars, inVars>>

\* DownloaderCore.download with 'except Exception' left out: the errors of the
\* engine are caught, any other exception propagates.
CoreDownloadNarrow(outcome) ==
    CASE outcome \in {"ok", "retcode"} -> "True"
      [] outcome \in {"DownloadError", "PostProcessingError", "KeyboardInterrupt"} ->
            "False"
      [] outcome = "Exception" -> "raised"

\* What DownloaderCore.download returns, by how the engine's download ended:
\* "ok", with a return code and no exception ("retcode", the way the engine
\* reports a failure under 'ignoreerrors'), or with an exception. The return
\* code is not read, and every exception is caught.
CoreDownload(outcome) ==
    CASE outcome \in {"ok", "retcode"} -> "True"
      [] outcome \in {"DownloadError", "PostProcessingError", "KeyboardInterrupt",
                      "Exception"} -> "False"

\* The download that ends handle_single_download. The function download()
\* returns nothing and catches Exception only.
Download(outcome) ==
    /\ op_flow \in HandlerFlows
    /\ op_pc = "download"
    /\ IF op_flow = ClassFlow
       THEN /\ op_calls' = Append(op_calls,
                  EngineCall("DownloaderCore.download", "download",
                             CoreDownloadOpts(op_format, op_opts, op_info)))
            /\ UNCHANGED op_opts
            /\ op_result' = IF CoreDownload(outcome) = "raised"
                            THEN op_result ELSE CoreDownload(outcome)
            /\ op_pc' = IF CoreDownload(outcome) = "raised" THEN "raised" ELSE "done"
       ELSE /\ op_calls' = Append(op_calls,
                  EngineCall("download", "download",
                             CliDownloadOpts(op_format, op_opts, op_info)))
            /\ op_opts' = CliNamedOpts(op_opts, op_info)
            /\ UNCHANGED op_result
            /\ op_pc' = IF outcome = "KeyboardInterrupt" THEN "raised" ELSE "done"
    /\ op_engine' = outcome
    /\ UNCHANGED <<op_flow, op_proxy, op_template, op_url, op_cookie, op_base,
                   op_mode, op_format, op_info, op_custom, op_left, op_formats,
                   op_entry, op_preset>>
    /\ UNCHANGED <<termVars, sdVars, fsVars, fbVars, appVars, bfVars, cfVars, pfVars, inVars>>

\* No flow builds an option dictionary.
OptionsClosed ==
    /\ op_flow = None
    /\ op_pc = "closed"
    /\ op_proxy = None
    /\ op_template = ""
    /\ op_url = ""
    /\ op_cookie = None
    /\ op_base = EmptyDict
    /\ op_opts = EmptyDict
    /\ op_mode = None
    /\ op_format = None
    /\ op_info = FALSE
    /\ op_custom = None
    /\ op_calls = <<>>
    /\ op_left = 0
    /\ op_formats = FALSE
    /\ op_result = None
    /\ op_entry = None
    /\ op_preset = None
    /\ op_engine = None

\* ---------------------------------------------------------------------------
\* config.py: VDDTConfig, and ConfigManager's file (DEBUG/config.py)
\* ---------------------------------------------------------------------------

\* A value is [t, s]: as a Python value t is its type and s its text, as a
\* JSON value t is its kind and s its text.
\* VDDTConfig(): the four sections with their dataclass defaults.
DefaultConfig ==
    [download |->
        [output_dir |-> [t |-> "str", s |-> "VDDT_Downloads"],
         default_mode |-> [t |-> "int", s |-> "1"],
         concurrent_downloads |-> [t |-> "int", s |-> "5"],
         max_retries |-> [t |-> "int", s |-> "10"],
         filename_template |->
             [t |-> "str", s |-> "%(upload_date)s_%(uploader)s_%(title)s.%(ext)s"],
         download_subtitles |-> [t |-> "bool", s |-> "False"],
         subtitle_languages |-> [t |-> "list", s |-> "'zh-Hans', 'zh-CN', 'en'"],
         embed_thumbnail |-> [t |-> "bool", s |-> "False"],
         download_danmaku |-> [t |-> "bool", s |-> "False"]],
     transcode |->
        [default_preset |-> [t |-> "int", s |-> "1"],
         video_codec |-> [t |-> "str", s |-> "libx264"],
         audio_codec |-> [t |-> "str", s |-> "aac"],
         crf |-> [t |-> "int", s |-> "23"],
         preset |-> [t |-> "str", s |-> "medium"],
         audio_bitrate |-> [t |-> "str", s |-> "192k"]],
     network |->
        [proxy |-> [t |-> "NoneType", s |-> "None"],
         timeout |-> [t |-> "int", s |-> "30"],
         user_agent |-> [t |-> "str", s |-> "Mozilla/5.0"]],
     ui |->
        [progress_bar_length |-> [t |-> "int", s |-> "40"],
         verbose |-> [t |-> "bool", s |-> "False"],
         color_output |-> [t |-> "bool", s |-> "True"]]]

\* json.dump of one value: None is null, a bool is true or false, an int is
\* a number with the same digits, a str a string, a list an array whose
\* strings are in double quotes.
JsonDump(v) ==
    CASE v.t = "NoneType" -> [t |-> "null", s |-> "null"]
      [] v.t = "bool" ->
            [t |-> "boolean", s |-> IF v.s = "True" THEN "true" ELSE "false"]
      [] v.t = "int" -> [t |-> "number", s |-> v.s]
      [] v.t = "str" -> [t |-> "string", s |-> v.s]
      [] v.t = "list" ->
            [t |-> "array",
             s |-> IF v.s = "'zh-Hans', 'zh-CN', 'en'"
                   THEN "\"zh-Hans\", \"zh-CN\", \"en\"" ELSE v.s]

\* json.load reading every value as its text.
JsonLoadText(j) == [t |-> "str", s |-> j.s]

\* json.load of one value.
JsonLoad(j) ==
    CASE j.t = "null" -> [t |-> "NoneType", s |-> "None"]
      [] j.t = "boolean" ->
            [t |-> "bool", s |-> IF j.s = "true" THEN "True" ELSE "False"]
      [] j.t = "number" -> [t |-> "int", s |-> j.s]
      [] j.t = "string" -> [t |-> "str", s |-> j.s]
      [] j.t = "array" ->
            [t |-> "list",
             s |-> IF j.s = "\"zh-Hans\", \"zh-CN\", \"en\""
                   THEN "'zh-Hans', 'zh-CN', 'en'" ELSE j.s]

\* from_dict(data): a new VDDTConfig, then for each of the four sections
\* found in data, setattr of every key for which hasattr is true. hasattr is
\* true for the fields, and also for the attributes every object has, of
\* which '__class__' and '__doc__' stand here: assigning a value that is no
\* class to __class__ raises TypeError, assigning __doc__ adds an attribute.
FromDict(data) ==
    LET Items(sec) ==
            IF sec \in DOMAIN data
            THEN {key \in DOMAIN data[sec] :
                     key \in DOMAIN DefaultConfig[sec] \cup {"__class__", "__doc__"}}
            ELSE {}
    IN [raised |-> \E sec \in DOMAIN DefaultConfig : "__class__" \in Items(sec),
        config |->
            [sec \in DOMAIN DefaultConfig |->
                [key \in DOMAIN DefaultConfig[sec] \cup (Items(sec) \ {"__class__"}) |->
                    IF key \in Items(sec) THEN data[sec][key]
                    ELSE DefaultConfig[sec][key]]]]

\* A settings screen of the TUI assigning to one field of the configuration.
SetField(sec, key, value) ==
    /\ cf_config' = [cf_config EXCEPT ![sec][key] = value]
    /\ cf_op' = "set"
    /\ UNCHANGED <<cf_file, cf_saved, cf_ret, cf_read>>
    /\ UNCHANGED <<termVars, sdVars, fsVars, fbVars, appVars, bfVars, opVars, pfVars, inVars>>

\* What save() leaves in the file: with "ok" the dump of to_dict(), which is
\* asdict of each section and so reads the dataclass fields only (its
\* 'version' entry, which from_dict never reads, is left out); when open()
\* fails ("open") the file as it was; when the write fails after the open
\* ("write") a cut text, which is no JSON.
Written(outcome) ==
    CASE outcome = "ok" ->
            [state |-> "json",
             data |-> [sec \in DOMAIN DefaultConfig |->
                          [key \in DOMAIN DefaultConfig[sec] |->
                              JsonDump(cf_config[sec][key])]]]
      [] outcome = "open" -> cf_file
      [] outcome = "write" -> [state |-> "invalid", data |-> EmptyDict]

\* save(): True when the file was written, False on any exception.
Save(outcome) ==
    /\ cf_file' = Written(outcome)
    /\ cf_ret' = IF outcome = "ok" THEN "True" ELSE "False"
    /\ cf_saved' = cf_config
    /\ cf_op' = "save"
    /\ UNCHANGED <<cf_config, cf_read>>
    /\ UNCHANGED <<termVars, sdVars, fsVars, fbVars, appVars, bfVars, opVars, pfVars, inVars>>

\* json.load(f) of a file that holds JSON.
FileData ==
    [sec \in DOMAIN cf_file.data |->
        [key \in DOMAIN cf_file.data[sec] |-> JsonLoad(cf_file.data[sec][key])]]

\* load(): a missing file is written by save() and the configuration held is
\* returned; else json.load and from_dict, and on any exception of the two
\* the configuration held is kept and returned.
Load(outcome) ==
    /\ cf_file.state = "missing" \/ outcome = "ok"
    /\ cf_file' = IF cf_file.state = "missing" THEN Written(outcome) ELSE cf_file
    /\ cf_config' =
           IF cf_file.state = "json" /\ ~FromDict(FileData).raised
           THEN FromDict(FileData).config
           ELSE cf_config
    /\ cf_op' = IF cf_op = "save" THEN "save_load" ELSE "load"
    /\ cf_read' = cf_file.state
    /\ UNCHANGED <<cf_saved, cf_ret>>
    /\ UNCHANGED <<termVars, sdVars, fsVars, fbVars, appVars, bfVars, opVars, pfVars, inVars>>

\* The configuration file written by hand, outside the program.
EditFile(content) ==
    /\ cf_file' = content
    /\ cf_op' = "edit"
    /\ UNCHANGED <<cf_config, cf_saved, cf_ret, cf_read>>
    /\ UNCHANGED <<termVars, sdVars, fsVars, fbVars, appVars, bfVars, opVars, pfVars, inVars>>

\* No ConfigManager in use.
ConfigClosed ==
    /\ cf_config = EmptyDict
    /\ cf_file = EmptyDict
    /\ cf_saved = EmptyDict
    /\ cf_ret = None
    /\ cf_read = None
    /\ cf_op = None

\* ---------------------------------------------------------------------------
\* suggest_best_quality (DEBUG/downloader_core.py), sanitize_filename
\* (DEBUG/utils.py)
\* ---------------------------------------------------------------------------

\* VideoInfo.from_ytdlp for one format dict f of the engine, [vcodec, height,
\* resolution] with 0 and None for a key that is absent: the resolution text
\* of the engine when there is one, else '<height>p' for a video format of
\* known height, else '仅音频'; the codec 'none' becomes '-'.
FromYtdlp(f, format_id) ==
    [format_id |-> format_id,
     resolution |-> IF f.resolution # None THEN f.resolution
                    ELSE IF f.vcodec # "none" /\ f.height # 0
                         THEN ToString(f.height) \o "p"
                         ELSE "仅音频",
     video_codec |-> IF f.vcodec = "none" THEN "-" ELSE f.vcodec]

\* suggest_best_quality(formats): the formats with has_video and a resolution
\* other than '仅音频', sorted by get_height in descending order; sorted() is
\* stable, so among equal keys the first of the list comes first. get_height
\* reads the number of a text '<number>p' and gives 0 for any other text.
SuggestBestQuality(formats) ==
    LET get_height(res) ==
            IF \E h \in 1 .. 1080 : res = ToString(h) \o "p"
            THEN CHOOSE h \in 1 .. 1080 : res = ToString(h) \o "p"
            ELSE 0
        video_formats ==
            {i \in 1 .. Len(formats) :
                formats[i].video_codec # "-" /\ formats[i].resolution # "仅音频"}
        first == CHOOSE i \in video_formats :
                    \A j \in video_formats :
                        \/ get_height(formats[j].resolution)
                               < get_height(formats[i].resolution)
                        \/ /\ get_height(formats[j].resolution)
                                  = get_height(formats[i].resolution)
                           /\ i <= j
    IN IF video_formats = {} THEN None ELSE formats[first].format_id

\* One call of suggest_best_quality on the formats from_ytdlp makes of info.
Suggest(info) ==
    /\ pf_call = None
    /\ pf_call' = "suggest_best_quality"
    /\ pf_arg' = info
    /\ pf_ret' = SuggestBestQuality(
                     [i \in 1 .. Len(info) |-> FromYtdlp(info[i], "f" \o ToString(i))])
    /\ UNCHANGED <<termVars, sdVars, fsVars, fbVars, appVars, bfVars, opVars, cfVars, inVars>>

\* sanitize_filename(name, replacement, max_length) on a name given as the
\* sequence of its characters. ILLEGAL_FILENAME_CHARS is the class
\* [\/:*?"<>|], in which '\/' is the slash; "\t" stands for the control
\* characters [\x00-\x1f\x7f]. strip('. ') cuts both ends, and the rstrip()
\* after the cut to max_length only whitespace at the end.
SanitizeFilename(name, replacement, max_length) ==
    LET ILLEGAL_FILENAME_CHARS == {"/", ":", "*", "?", "\"", "<", ">", "|"}
        strip(str, chars, left) ==
            LET keep == {i \in 1 .. Len(str) : str[i] \notin chars}
            IN IF keep = {} THEN <<>>
               ELSE SubSeq(str,
                           IF left THEN CHOOSE i \in keep : \A j \in keep : i <= j
                           ELSE 1,
                           CHOOSE i \in keep : \A j \in keep : j <= i)
        unnamed == <<"u", "n", "n", "a", "m", "e", "d">>
        replaced == [i \in 1 .. Len(name) |->
                        IF name[i] \in ILLEGAL_FILENAME_CHARS
                        THEN replacement ELSE name[i]]
        removed == SelectSeq(replaced, LAMBDA c : c # "\t")
        stripped == strip(removed, {".", " "}, TRUE)
        limited == IF Len(stripped) > max_length
                   THEN strip(SubSeq(stripped, 1, max_length), {" "}, FALSE)
                   ELSE stripped
    IN IF name = <<>> THEN unnamed
       ELSE IF limited = <<>> THEN unnamed ELSE limited

\* One call of sanitize_filename with the default replacement and max_length.
Sanitize(name) ==
    /\ pf_call = None
    /\ pf_call' = "sanitize_filename"
    /\ pf_arg' = name
    /\ pf_ret' = SanitizeFilename(name, "_", 200)
    /\ UNCHANGED <<termVars, sdVars, fsVars, fbVars, appVars, bfVars, opVars, cfVars, inVars>>

\* No call of the two functions made.
PureClosed ==
    /\ pf_call = None
    /\ pf_arg = None
    /\ pf_ret = None

\* ---------------------------------------------------------------------------
\* InputDialog, and the callbacks that open one (DEBUG/tui.py)
\* ---------------------------------------------------------------------------

\* window.addstr(0, 0, text) in the input window, which has one row of width
\* columns: curses raises curses.error, after printing, when the text
\* reaches the last cell of the window.
AddStrNeverRaises(text, width) == FALSE
AddStrRaises(text, width) == Len(text) >= width

\* The loop of InputDialog.show over the keys that getch() delivers, from the
\* list result on (pos is len(result) throughout): what show() returns, as
\* [none, text]. "ENTER" ends the loop, "q" and "Q" return None, "BS" is the
\* backspace, every other key here is a printable character. A curses.error
\* makes show() return None. With no key left show() is still waiting, which
\* is given as None. The turns of the loop for a run of one printable key are
\* taken together: each appends the key while pos < input_width and draws
\* the text.
RECURSIVE InputLoop(_, _, _, _)
InputLoop(result, keys, input_width, default) ==
    LET none == [none |-> TRUE, text |-> <<>>]
        key == Head(keys)
        other == {i \in 1 .. Len(keys) : keys[i] # key}
        run == IF other = {} THEN Len(keys)
               ELSE (CHOOSE i \in other : \A j \in other : i <= j) - 1
        m == Min(run, Max(0, input_width - Len(result)))
        value == IF result # <<>> THEN result ELSE default
    IN CASE keys = <<>> -> none
         [] keys # <<>> /\ key = "ENTER" ->
               IF value # <<>> THEN [none |-> FALSE, text |-> value] ELSE none
         [] keys # <<>> /\ key \in {"q", "Q"} -> none
         [] keys # <<>> /\ key = "BS" ->
               InputLoop(IF Len(result) > 0 THEN Take(result, Len(result) - 1)
                         ELSE result,
                         Tail(keys), input_width, default)
         [] OTHER ->
               IF \E j \in 1 .. m :
                      AddStrRaises(result \o [i \in 1 .. j |-> key], input_width)
               THEN none
               ELSE InputLoop(result \o [i \in 1 .. m |-> key],
                              SubSeq(keys, run + 1, Len(keys)), input_width, default)

\* InputDialog(stdscr, title, prompt, default).show() in a terminal of cols
\* columns, for the titles and prompts of the program, none of which makes
\* the window wider than 50: the default cut to the input width is drawn,
\* then the loop runs on it.
InputDialogShow(default, keys, cols) ==
    LET width == Min(50, cols - 4)
        input_width == width - 4
        value == IF Len(default) > input_width THEN Take(default, input_width)
                 ELSE default
    IN IF AddStrRaises(value, input_width) THEN [none |-> TRUE, text |-> <<>>]
       ELSE InputLoop(value, keys, input_width, default)

\* str(n) for the numbers of concurrent downloads of the model; int() reads
\* the same texts back.
StrOf(n) ==
    CASE n = 1 -> <<"1">> [] n = 5 -> <<"5">>
      [] n = 10 -> <<"1", "0">> [] n = 50 -> <<"5", "0">>

\* A callback that opens an InputDialog and reads keys from the user: the url
\* of _on_single_download, with an empty default, and the settings
\* 'output_dir', 'user_agent' and 'concurrent', with the current value as the
\* default. in_config is the value the callback assigns to.
InputCallback(keys) ==
    /\ in_pc = "open"
    /\ in_pc' = "done"
    /\ in_keys' = keys
    /\ LET default == IF in_kind = "concurrent" THEN StrOf(in_config) ELSE in_config
           new_val == InputDialogShow(default, keys, 80)
       IN /\ in_ret' = new_val
          /\ in_config' =
                 IF new_val.none \/ in_kind = "url" THEN in_config
                 ELSE IF in_kind # "concurrent" THEN new_val.text
                 ELSE IF \E n \in {1, 5, 10, 50} : StrOf(n) = new_val.text
                      THEN Min(10, Max(1, CHOOSE n \in {1, 5, 10, 50} :
                                              StrOf(n) = new_val.text))
                      ELSE in_config
    /\ UNCHANGED <<in_kind, in_held>>
    /\ UNCHANGED <<termVars, sdVars, fsVars, fbVars, appVars, bfVars, opVars, cfVars,
                   pfVars>>

\* No InputDialog open.
InputClosed ==
    /\ in_kind = None
    /\ in_held = None
    /\ in_config = None
    /\ in_keys = <<>>
    /\ in_ret = None
    /\ in_pc = "closed"

\* The values of a generic option list of n options.
GenericOptions(n) == [i \in 1 .. n |-> "opt" \o ToString(i)]

(***************************************************************************)
(* SpecSelect: one SelectDialog over any non-empty option list.            *)
(***************************************************************************)
SelectInit ==
    /\ LINES \in TermLines
    /\ \E n \in 1 .. MaxOptions :
          /\ options = GenericOptions(n)
          /\ sd_height = SelectHeight(n, LINES)
    /\ sd_selected = 0
    /\ sd_scroll_offset = 0
    /\ sd_result = None
    /\ sd_key = None
    /\ sd_pc = "show"
    /\ BrowserClosed
    /\ AppClosed
    /\ BatchClosed
    /\ OptionsClosed
    /\ ConfigClosed
    /\ PureClosed
    /\ InputClosed

SelectPress == \E k \in Keys : SelectKey(k) /\ UNCHANGED <<termVars, fsVars, fbVars, appVars, bfVars, opVars, cfVars, pfVars, inVars>>
SelectDrawFails == SelectCursesError /\ UNCHANGED <<termVars, fsVars, fbVars, appVars, bfVars, opVars, cfVars, pfVars, inVars>>

SelectNext == SelectPress \/ SelectDrawFails

SpecSelect == SelectInit /\ [][SelectNext]_vars

(***************************************************************************)
(* SpecBrowser: one FileBrowserDialog over the sample file system.         *)
(***************************************************************************)
\* FileBrowserDialog(stdscr, title, start_path): the state after construction.
BrowserInit ==
    /\ LINES \in TermLines
    /\ fs_files \in 0 .. MaxFiles
    /\ fs_denied \in SUBSET FsPaths
    /\ fb_path \in FsPaths
    /\ fb_items = IF fb_path \in fs_denied THEN <<UpItem, ErrItem>>
                  ELSE Listing(fb_path, fs_files)
    /\ fb_height = BrowserHeight(LINES)
    /\ fb_selected = 0
    /\ fb_scroll_offset = 0
    /\ fb_result = <<"None", <<>>, 0>>
    /\ fb_key = None
    /\ fb_pc = "show"
    /\ SelectClosed
    /\ AppClosed
    /\ BatchClosed
    /\ OptionsClosed
    /\ ConfigClosed
    /\ PureClosed
    /\ InputClosed

BrowserPress ==
    \E k \in BrowserKeys : BrowserKey(k) /\ UNCHANGED <<termVars, sdVars, fsVars, appVars, bfVars, opVars, cfVars, pfVars, inVars>>
BrowserDrawFails == BrowserCursesError /\ UNCHANGED <<termVars, sdVars, fsVars, appVars, bfVars, opVars, cfVars, pfVars, inVars>>

BrowserNext == BrowserPress \/ BrowserDrawFails

SpecBrowser == BrowserInit /\ [][BrowserNext]_vars

(***************************************************************************)
(* Spec: VDDTApp.run with its worker threads.                              *)
(***************************************************************************)
\* VDDTApp.__init__, before run(): nothing is drawn yet.
Init ==
    /\ running = TRUE
    /\ menu_index = 0
    /\ has_selectable = FALSE
    /\ selectable_indices = <<>>
    /\ status_msg = Msg("ready", 0, 0)
    /\ status_level = "info"
    /\ progress = 0
    /\ progress_label = Msg("", 0, 0)
    /\ screen = BlankScreen
    /\ app_pc = "draw"
    /\ app_key = None
    /\ callback = None
    /\ dlg = None
    /\ mode = None
    /\ app_n = 0
    /\ tasks = <<>>
    /\ status_src = "main"
    /\ progress_src = "main"
    /\ LINES = 0
    /\ SelectClosed
    /\ BrowserClosed
    /\ BatchClosed
    /\ OptionsClosed
    /\ ConfigClosed
    /\ PureClosed
    /\ InputClosed

AppDraw ==
    \E s \in AppSizes : Draw(s[1], s[2]) /\ UNCHANGED <<termVars, sdVars, fsVars, fbVars, bfVars, opVars, cfVars, pfVars, inVars>>
AppInput ==
    \E k \in AppKeys : HandleInput(k) /\ UNCHANGED <<termVars, sdVars, fsVars, fbVars, bfVars, opVars, cfVars, pfVars, inVars>>
AppSelectReturns ==
    \E r \in DialogResults(dlg) :
        SelectReturns(r) /\ UNCHANGED <<termVars, sdVars, fsVars, fbVars, bfVars, opVars, cfVars, pfVars, inVars>>
AppModalReturns ==
    \E o \in ModalOutcomes(dlg) :
        ModalReturns(o) /\ UNCHANGED <<termVars, sdVars, fsVars, fbVars, bfVars, opVars, cfVars, pfVars, inVars>>
AppTaskStep ==
    \E t \in 1 .. Len(tasks), ok \in BOOLEAN :
        TaskStep(t, ok) /\ UNCHANGED <<termVars, sdVars, fsVars, fbVars, bfVars, opVars, cfVars, pfVars, inVars>>

Next == AppDraw \/ AppInput \/ AppSelectReturns \/ AppModalReturns \/ AppTaskStep

Spec == Init /\ [][Next]_vars

\* C3: whenever _handle_input is about to process a key, the attribute
\* _selectable_indices exists and menu_index is a valid index into it, and
\* _handle_input itself never raises (AttributeError, IndexError), whatever
\* keys were pressed and whatever terminal sizes _draw has seen.
C3_SelectableValid ==
    /\ app_pc = "input" =>
          /\ has_selectable
          /\ 0 <= menu_index /\ menu_index < Len(selectable_indices)
    /\ ~(app_pc = "raised" /\ callback = None)

\* C3: Enter pressed while menu_index points past the list of a shorter menu.
C3_StaleIndexEntered ==
    /\ app_pc = "raised" /\ callback = None /\ app_key = "ENTER"
    /\ has_selectable /\ menu_index >= Len(selectable_indices)

\* The shortcut characters of the menu, and the callback of the item that
\* shows the shortcut character c.
ShortcutKeys == {"1", "2", "3", "4", "5", "6", "A", "Q"}
ShortcutCallback(c) ==
    MainItems[CHOOSE i \in 1 .. Len(MainItems) : MainItems[i].shortcut = c].callback

\* The shortcut characters on the screen.
ShownShortcuts == {screen.shortcuts[j] : j \in 1 .. Len(screen.shortcuts)}

\* C4: when _handle_input gets a key whose character the menu on the screen
\* shows in parentheses before an item (1-6, A, Q), the callback of exactly
\* that item is invoked: A opens the about dialog and Q the quit dialog.
C4_ShortcutInvokesItem ==
    [][\A c \in ShortcutKeys :
          (c \in ShownShortcuts /\ HandleInput(c)) =>
              /\ app_pc' \in {"select", "modal"}
              /\ callback' = ShortcutCallback(c)
              /\ dlg' = FirstDialog(ShortcutCallback(c))]_vars

\* C4: the key A, shown before the about item, has opened the quit dialog.
C4_AboutKeyQuits ==
    /\ app_pc = "select" /\ app_key = "A"
    /\ callback = "_on_quit" /\ dlg = "quit_mode"

\* The status and the progress that the screen shows are those of the fields.
ShowsStatus(scr) == scr.msg = status_msg /\ scr.level = status_level
ShowsProgress(scr) == scr.bar = <<progress, progress_label>>

\* A step of _draw.
DrawStep == app_pc = "draw" /\ app_pc' = "input"

C6_LoopLeftOnlyByQuit ==
    /\ app_pc \in {"exited", "raised"} =>
          (callback = "_on_quit" /\ mode \in {"quit", "save_quit"})
    /\ ~running =>
          (app_pc = "exited" /\ callback = "_on_quit" /\ mode \in {"quit", "save_quit"})

\* C6: run() was left by an exception of _handle_input, self.running true.
C6_LoopLeftByException ==
    /\ app_pc = "raised" /\ running
    /\ callback = None /\ app_key = "x" /\ ~has_selectable

\* C2: in FileBrowserDialog, in every state reached by Up/Down/Enter presses,
\* also after Enter on a directory whose listing fails, 0 <= selected <
\* len(items), so Enter always reads an existing item.
C2_BrowserSelectedInBounds ==
    /\ fb_pc = "show" => (0 <= fb_selected /\ fb_selected < Len(fb_items))
    /\ fb_pc # "raised"

\* C2: the state the claim is about, Enter on a directory that cannot be listed.
C2_DeniedEntered ==
    /\ fb_pc = "show" /\ fb_key = "ENTER"
    /\ fb_path \in fs_denied /\ fb_items = <<UpItem, ErrItem>>

\* The values of the options of the dialog.
OptionValues == {options[i] : i \in 1 .. Len(options)}

\* C1: in a SelectDialog over a non-empty option list, after any sequence of
\* Up/Down/k/j presses 0 <= selected < len(options), and Enter returns the
\* value of the option at the selected index (no IndexError is raised).
C1_SelectedInBounds ==
    /\ 0 <= sd_selected /\ sd_selected < Len(options)
    /\ sd_pc # "raised"
    /\ (sd_pc = "returned" /\ sd_key = "ENTER") =>
          (sd_result \in OptionValues /\ sd_result = options[sd_selected + 1])

\* C1 witness: Enter pressed on the last option of a list of at least three
\* options, which is reached by Up (wrapping) or by repeated Down.
C1_Witness ==
    /\ sd_pc = "returned" /\ sd_key = "ENTER"
    /\ Len(options) >= 3 /\ sd_selected = Len(options) - 1
    /\ sd_result = options[Len(options)]

(***************************************************************************)
(* SpecBatch: the batch mode over every small link-list file.              *)
(***************************************************************************)
BatchInit ==
    /\ bf_reader \in BatchReaders
    /\ bf_file \in LinkFiles
    /\ bf_links = <<>>
    /\ bf_handed = <<>>
    /\ bf_pc = "open"
    /\ LINES = 0
    /\ SelectClosed
    /\ BrowserClosed
    /\ AppClosed
    /\ OptionsClosed
    /\ ConfigClosed
    /\ PureClosed
    /\ InputClosed

BatchNext == BatchRead \/ BatchHand

SpecBatch == BatchInit /\ [][BatchNext]_vars

\* t is made of elements of s, in the order of s.
RECURSIVE IsSubsequence(_, _)
IsSubsequence(t, s) ==
    IF t = <<>> THEN TRUE
    ELSE IF s = <<>> THEN FALSE
    ELSE IF Head(t) = Head(s) THEN IsSubsequence(Tail(t), Tail(s))
    ELSE IsSubsequence(t, Tail(s))

\* C7: the links read from a link-list file, and the urls handed to the
\* downloader, are stripped lines of the file in file order, and none of
\* them is empty or begins with '#'.
C7_LinksAreCleanLines ==
    bf_pc \in {"loop", "done", "nolinks"} =>
        /\ IsSubsequence(bf_links, [i \in 1 .. Len(bf_file) |-> Strip(bf_file[i])])
        /\ bf_handed = SubSeq(bf_links, 1, Len(bf_handed))
        /\ \A i \in 1 .. Len(bf_links) :
              Len(bf_links[i]) > 0 /\ ~StartsWith(bf_links[i], "#")

\* C7: a line that begins with blanks before its '#' has been handed to the
\* downloader as a url.
C7_IndentedCommentHanded ==
    /\ bf_pc = "done"
    /\ bf_file = << <<" ", "#", "u", "\n">> >>
    /\ bf_handed = << <<"#", "u">> >>

(***************************************************************************)
(* SpecOptions: one flow building the dictionaries it hands to the engine. *)
(***************************************************************************)
\* The class handler runs with any loaded configuration; the TUI starts
\* with no proxy configured and its network settings set one.
OptionsInit ==
    /\ op_flow \in HandlerFlows \cup TuiFlows
    /\ op_pc = CASE op_flow \in CliFlows -> "main"
                 [] op_flow = ClassFlow -> "handle"
                 [] OTHER -> "menu"
    /\ op_proxy \in CASE op_flow = ClassFlow -> {None, "", ProxyUrl}
                      [] op_flow \in TuiFlows -> {None, ""}
                      [] OTHER -> {None}
    /\ op_template \in IF op_flow = ClassFlow
                       THEN {"", "%(upload_date)s_%(uploader)s_%(title)s.%(ext)s"}
                       ELSE {""}
    /\ op_url \in IF op_flow = ClassFlow THEN Urls \ {""} ELSE {""}
    /\ op_cookie = None
    /\ op_base = IF op_flow \in CliFlows THEN MainOpts(op_flow, None, FALSE) ELSE EmptyDict
    /\ op_opts = EmptyDict
    /\ op_mode = None
    /\ op_format = None
    /\ op_info = FALSE
    /\ op_custom = None
    /\ op_calls = <<>>
    /\ op_left = 0
    /\ op_formats = FALSE
    /\ op_result = None
    /\ op_entry = None
    /\ op_preset = None
    /\ op_engine = None
    /\ LINES = 0
    /\ SelectClosed
    /\ BrowserClosed
    /\ AppClosed
    /\ BatchClosed
    /\ ConfigClosed
    /\ PureClosed
    /\ InputClosed

OptionsNext ==
    \/ \E entry \in {"cancel", "", ProxyUrl} : SetProxy(entry)
    \/ \E m \in {"auto", "audio", "select"} : DownloadTask(m)
    \/ \E m \in {"auto", "audio"}, n \in 1 .. MaxLinks : BatchTask(m, n)
    \/ BatchDownload
    \/ \E url \in Urls, found \in BOOLEAN : EnterUrl(url, found)
    \/ \E m \in DownloadModes \cup {None} : Begin(m)
    \/ \E outcome \in {"DownloadError", "ExtractorError", "Exception", "no_info",
                       "no_formats", "formats"} : GetInfo(outcome)
    \/ \E pick \in FormatPicks(op_flow, op_mode) : SelectFormat(pick)
    \/ \E yes \in BOOLEAN, custom \in {"", "%(id)s.%(ext)s"} :
          ConfigureFilename(yes, custom)
    \/ \E subs \in BOOLEAN, thumb \in BOOLEAN, danmaku \in BOOLEAN :
          ConfigureExtras(subs, thumb, danmaku)
    \/ \E choice \in {"no", "1", "2", "3", "4", "5p", "5k", "5x"} :
          ConfigureTranscode(choice)
    \/ \E outcome \in {"ok", "retcode", "DownloadError", "PostProcessingError",
                       "KeyboardInterrupt", "Exception"} : Download(outcome)

SpecOptions == OptionsInit /\ [][OptionsNext]_vars

\* The engine calls made by DownloaderCore and by the TUI tasks.
ConfigCalls ==
    {i \in 1 .. Len(op_calls) :
        op_calls[i].by \in {"DownloaderCore.get_format_lists",
                            "DownloaderCore.download",
                            "download_task", "batch_task"}}

\* C8: whenever config.network.proxy holds a non-empty value, every option
\* dictionary handed to the engine by DownloaderCore.get_format_lists, by
\* DownloaderCore.download and by the TUI download and batch tasks carries
\* that proxy.
C8_ProxyCarried ==
    op_proxy \notin {None, ""} =>
        \A i \in ConfigCalls :
            /\ "proxy" \in DOMAIN op_calls[i].opts
            /\ op_calls[i].opts["proxy"] = op_proxy

\* C8: with a proxy configured, a dictionary without any 'proxy' key has been
\* handed to the engine.
C8_ProxyDropped ==
    /\ op_proxy = ProxyUrl
    /\ \E i \in ConfigCalls : "proxy" \notin DOMAIN op_calls[i].opts

\* The engine download call a handler made last, 0 when it made none.
LastDownload ==
    IF op_calls # <<>> /\ op_calls[Len(op_calls)].api = "download"
          /\ op_flow \in HandlerFlows
    THEN Len(op_calls) ELSE 0

\* C9: after a yes to the template prompt and a non-empty template T, the
\* 'outtmpl' with which handle_single_download finally invokes the engine
\* download is output_dir joined with T.
C9_CustomTemplateUsed ==
    (op_pc = "done" /\ op_custom # None /\ LastDownload > 0) =>
        op_calls[LastDownload].opts["outtmpl"] = Join(OutputDir, op_custom)

\* C9: DownloadHandler.handle_single_download has invoked the engine download
\* with the name built from the video information although a template T was
\* entered.
C9_CustomTemplateOverwritten ==
    /\ op_flow = ClassFlow
    /\ op_pc = "done"
    /\ op_custom = "%(id)s.%(ext)s"
    /\ LastDownload > 0
    /\ op_calls[LastDownload].opts["outtmpl"] = Join(OutputDir, InfoTemplate)

\* C10: in the command-line main flows, when prepare_cookies_netscape
\* returned a cookie file path for the entered url, every dictionary used for
\* that url's format extraction and download has 'cookiefile' equal to it.
C10_CookieFileUsed ==
    (op_flow \in CliFlows /\ op_cookie # None) =>
        \A i \in 1 .. Len(op_calls) :
            /\ "cookiefile" \in DOMAIN op_calls[i].opts
            /\ op_calls[i].opts["cookiefile"] = op_cookie

\* C10: a cookie file was found for the url, and the extraction and the
\* download both ran with 'cookiefile' None.
C10_CookieFileIgnored ==
    /\ op_flow \in CliFlows
    /\ op_cookie = CookiePath
    /\ op_pc = "done"
    /\ Len(op_calls) = 2
    /\ \A i \in 1 .. Len(op_calls) : op_calls[i].opts["cookiefile"] = None

\* C14: after the proxy input was confirmed with empty text,
\* config.network.proxy is empty or unset, whatever proxy was configured
\* before.
C14_EmptyInputClearsProxy ==
    (op_flow \in TuiFlows /\ op_entry = "") => op_proxy \in {None, ""}

\* C14: the proxy input was confirmed with empty text and the proxy
\* configured before is still in config.network.proxy.
C14_ProxyKept ==
    /\ op_flow \in TuiFlows
    /\ op_pc = "menu"
    /\ op_entry = ""
    /\ op_proxy = ProxyUrl

\* The exceptions of the engine that are subclasses of Exception.
EngineExceptions ==
    {"DownloadError", "ExtractorError", "PostProcessingError", "Exception"}

\* C15: when the engine raised an exception (a subclass of Exception) in
\* DownloaderCore.get_format_lists or DownloaderCore.download, nothing
\* propagates: get_format_lists has given (None, []) and download has
\* returned False.
C15_EngineExceptionsCaught ==
    (op_flow = ClassFlow /\ op_engine \in EngineExceptions) =>
        /\ op_pc # "raised"
        /\ op_calls[Len(op_calls)].api = "extract_info" =>
               (~op_info /\ ~op_formats)
        /\ op_calls[Len(op_calls)].api = "download" => op_result = "False"

\* C15: the engine's download raised an Exception that is none of its own
\* error classes, and handle_single_download has returned False.
C15_ExceptionGaveFalse ==
    /\ op_flow = ClassFlow
    /\ op_engine = "Exception"
    /\ op_calls[Len(op_calls)].api = "download"
    /\ op_pc = "done"
    /\ op_result = "False"

\* C16: DownloaderCore.download has returned True only if the engine's
\* download reported success; a failure reported through the return code
\* gives False.
C16_TrueOnlyOnSuccess ==
    (op_flow = ClassFlow /\ LastDownload > 0) =>
        /\ op_result = "True" => op_engine = "ok"
        /\ op_engine = "retcode" => op_result = "False"

\* C16: under 'ignoreerrors' the engine's download ended with a return code
\* for a failure, and DownloaderCore.download has returned True.
C16_FailureGaveTrue ==
    /\ op_flow = ClassFlow
    /\ LastDownload > 0
    /\ op_calls[LastDownload].opts["ignoreerrors"] = "True"
    /\ op_engine = "retcode"
    /\ op_result = "True"

\* C18: in DownloadHandler.handle_single_download, after the transcode step
\* was answered with the audio-only MP3 preset, the format passed to the
\* engine download is 'bestaudio'.
C18_Mp3PresetBestAudio ==
    (op_flow = ClassFlow /\ op_preset = "3" /\ LastDownload > 0) =>
        op_calls[LastDownload].opts["format"] = "bestaudio"

\* C18: the MP3 preset was picked in DownloadHandler and the engine download
\* ran with the format chosen before the transcode step.
C18_Mp3PresetKeepsFormat ==
    /\ op_flow = ClassFlow
    /\ op_preset = "3"
    /\ op_mode = "2"
    /\ LastDownload > 0
    /\ op_calls[LastDownload].opts["format"] = op_format
    /\ op_format # "bestaudio"

\* The engine download calls DownloadHandler has made.
DownloadCalls == {i \in 1 .. Len(op_calls) : op_calls[i].api = "download"}

\* C19: in DownloadHandler.handle_single_download the engine download is
\* invoked at most once, and only after a mode was selected, the video
\* information was requested and a format was chosen; with no mode, with an
\* empty format list in a non-audio mode, or with no format chosen, the call
\* has returned False without any download.
C19_DownloadOnceAfterChoices ==
    op_flow = ClassFlow =>
        /\ Cardinality(DownloadCalls) <= 1
        /\ \A i \in DownloadCalls :
               /\ op_mode # None
               /\ \E j \in 1 .. i - 1 : op_calls[j].api = "extract_info"
               /\ op_format # None
        /\ (op_pc \in {"handle", "info"} \/ op_mode = None
              \/ (op_mode # "3" /\ ~op_formats)
              \/ (op_pc \notin {"handle", "info", "format"} /\ op_format = None)) =>
               DownloadCalls = {}
        /\ (op_pc \notin {"handle", "info"}
              /\ (op_mode = None \/ (op_mode # "3" /\ ~op_formats))) =>
               op_result = "False"
        /\ (op_pc \notin {"handle", "info", "format"} /\ op_format = None) =>
               op_result = "False"

\* C19: the format selection of DownloadHandler returned None after the
\* information was fetched, and the call has returned False with the
\* extraction as its only use of the engine.
C19_NoFormatReturnsFalse ==
    /\ op_flow = ClassFlow
    /\ op_pc = "returned"
    /\ op_mode = "2"
    /\ op_formats
    /\ op_format = None
    /\ op_result = "False"
    /\ Len(op_calls) = 1
    /\ op_calls[1].api = "extract_info"

\* ---------------------------------------------------------------------------
\* ConfigManager: fields set, save(), load(), and the file edited by hand
\* ---------------------------------------------------------------------------
ConfigInit ==
    /\ cf_config = DefaultConfig
    /\ cf_file = [state |-> "missing", data |-> EmptyDict]
    /\ cf_saved = DefaultConfig
    /\ cf_ret = None
    /\ cf_read = None
    /\ cf_op = "init"
    /\ LINES = 0
    /\ SelectClosed
    /\ BrowserClosed
    /\ AppClosed
    /\ BatchClosed
    /\ OptionsClosed
    /\ PureClosed
    /\ InputClosed

ConfigNext ==
    \/ \E f \in {<<"network", "timeout", [t |-> "int", s |-> "99"]>>,
                 <<"network", "proxy", [t |-> "str", s |-> ProxyUrl]>>,
                 <<"download", "download_subtitles", [t |-> "bool", s |-> "True"]>>} :
           SetField(f[1], f[2], f[3])
    \/ \E outcome \in {"ok", "open", "write"} : Save(outcome)
    \/ \E outcome \in {"ok", "open", "write"} : Load(outcome)
    \/ \E content \in
           {[state |-> "missing", data |-> EmptyDict],
            [state |-> "invalid", data |-> EmptyDict],
            [state |-> "json",
             data |-> [network |-> [timeout |-> [t |-> "number", s |-> "7"]]]],
            [state |-> "json",
             data |-> [download |-> [bogus |-> [t |-> "number", s |-> "1"]],
                       zzz |-> EmptyDict]],
            [state |-> "json",
             data |-> [download |->
                          Put(EmptyDict, "__class__", [t |-> "number", s |-> "1"])]],
            [state |-> "json",
             data |-> [download |->
                          Put(EmptyDict, "__doc__", [t |-> "string", s |-> "x"])]]} :
           EditFile(content)

SpecConfig == ConfigInit /\ [][ConfigNext]_vars

\* The fields of the four sections of a configuration are those of c.
SameFields(config, c) ==
    \A sec \in DOMAIN DefaultConfig :
        \A key \in DOMAIN DefaultConfig[sec] : config[sec][key] = c[sec][key]

C12_FromDictDefaults ==
    (cf_op \in {"load", "save_load"} /\ cf_read = "json") =>
        /\ ~FromDict(FileData).raised
        /\ \A sec \in DOMAIN DefaultConfig :
               /\ DOMAIN FromDict(FileData).config[sec] = DOMAIN DefaultConfig[sec]
               /\ \A key \in DOMAIN DefaultConfig[sec] :
                      (sec \notin DOMAIN FileData \/ key \notin DOMAIN FileData[sec]) =>
                          FromDict(FileData).config[sec][key] = DefaultConfig[sec][key]

\* C12: a file whose download section holds the key '__class__' was loaded,
\* and from_dict raised on it.
C12_UnknownKeyRaised ==
    /\ cf_op = "load"
    /\ cf_read = "json"
    /\ "download" \in DOMAIN cf_file.data
    /\ "__class__" \in DOMAIN cf_file.data["download"]
    /\ FromDict(FileData).raised

\* C13: when load has read a file that is not valid JSON, the configuration
\* it returns has every field at its default, whatever configuration the
\* manager held before.
C13_InvalidFileGivesDefaults ==
    (cf_op \in {"load", "save_load"} /\ cf_read = "invalid") =>
        SameFields(cf_config, DefaultConfig)

\* C13: load has read a file that is not valid JSON and the timeout set
\* before is still in the configuration.
C13_InvalidFileKeepsConfig ==
    /\ cf_op = "load"
    /\ cf_read = "invalid"
    /\ cf_config["network"]["timeout"] = [t |-> "int", s |-> "99"]

\* ---------------------------------------------------------------------------
\* Calls of suggest_best_quality and of sanitize_filename
\* ---------------------------------------------------------------------------
PureInit ==
    /\ PureClosed
    /\ InputClosed
    /\ LINES = 0
    /\ SelectClosed
    /\ BrowserClosed
    /\ AppClosed
    /\ BatchClosed
    /\ OptionsClosed
    /\ ConfigClosed
    /\ InputClosed

PureNext ==
    \/ \E n \in 0 .. MaxFormats :
           \E info \in [1 .. n ->
                   {[vcodec |-> "none", height |-> 0, resolution |-> "audio only"],
                    [vcodec |-> "none", height |-> 0, resolution |-> None],
                    [vcodec |-> "avc1", height |-> 0, resolution |-> None],
                    [vcodec |-> "avc1", height |-> 360, resolution |-> None],
                    [vcodec |-> "avc1", height |-> 360, resolution |-> "640x360"],
                    [vcodec |-> "avc1", height |-> 1080, resolution |-> None],
                    [vcodec |-> "avc1", height |-> 1080, resolution |-> "1920x1080"]}] :
               Suggest(info)
    \/ \E n \in 0 .. MaxNameLen :
           \E name \in [1 .. n -> {"a", "/", "\\", ".", " ", "\t"}] :
               \/ Sanitize(name)
               \/ Sanitize([i \in 1 .. 199 |-> "a"] \o name)

SpecPure == PureInit /\ [][PureNext]_vars

\* C17: for a format list made by from_ytdlp that holds a video format,
\* suggest_best_quality returns the format_id of a format whose pixel height
\* is maximal among the video formats, and None when there is no video
\* format. (Video formats whose height the engine does not give are left out
\* of the comparison.)
C17_BestIsTallest ==
    pf_call = "suggest_best_quality" =>
        LET video == {i \in 1 .. Len(pf_arg) : pf_arg[i].vcodec # "none"}
            known == {i \in video : pf_arg[i].height # 0}
        IN /\ video = {} => pf_ret = None
           /\ known # {} =>
                  \E i \in known :
                      /\ pf_ret = "f" \o ToString(i)
                      /\ \A j \in known : pf_arg[j].height <= pf_arg[i].height

\* C17: of a 360 and a 1080 pixel format, both with the engine's resolution
\* text 'WIDTHxHEIGHT', suggest_best_quality has returned the 360 pixel one.
C17_LowerFormatSuggested ==
    /\ pf_call = "suggest_best_quality"
    /\ pf_arg = <<[vcodec |-> "avc1", height |-> 360, resolution |-> "640x360"],
                  [vcodec |-> "avc1", height |-> 1080, resolution |-> "1920x1080"]>>
    /\ pf_ret = "f1"

\* C20: for every name, with the default replacement and max_length,
\* sanitize_filename returns a non-empty string that holds none of the
\* characters \ / : * ? " < > | and no control character, and that neither
\* begins nor ends with a space or a dot.
C20_SanitizedIsSafe ==
    pf_call = "sanitize_filename" =>
        /\ pf_ret # <<>>
        /\ \A i \in 1 .. Len(pf_ret) :
               pf_ret[i] \notin {"\\", "/", ":", "*", "?", "\"", "<", ">", "|", "\t"}
        /\ pf_ret[1] \notin {" ", "."}
        /\ pf_ret[Len(pf_ret)] \notin {" ", "."}

\* C20: sanitize_filename has returned a name with its backslash in it.
C20_BackslashKept ==
    /\ pf_call = "sanitize_filename"
    /\ pf_arg = <<"a", "\\", "a">>
    /\ pf_ret = <<"a", "\\", "a">>

\* C21: in SelectDialog, after any sequence of Up/Down key presses,
\* wrap-around at either end of a list longer than the window included, the
\* selected index lies inside the drawn window:
\* scroll_offset <= selected < scroll_offset + visible_count.
C21_SelectedInWindow ==
    (sd_pc = "show" /\ sd_key \in NavKeys) =>
        /\ sd_scroll_offset <= sd_selected
        /\ sd_selected < sd_scroll_offset + SelectVisible

\* C21: Up on the first option of a list longer than a window of at least
\* one row has selected the last option, and the window still starts at the
\* first.
C21_WrappedOutOfWindow ==
    /\ sd_pc = "show"
    /\ sd_key = "UP"
    /\ SelectVisible >= 1
    /\ Len(options) > SelectVisible
    /\ sd_selected = Len(options) - 1
    /\ sd_scroll_offset = 0

\* ---------------------------------------------------------------------------
\* One callback with its InputDialog, in a terminal of 80 columns
\* ---------------------------------------------------------------------------
InputInit ==
    /\ \/ /\ in_kind = "url"
          /\ in_held = <<>>
       \/ /\ in_kind \in {"output_dir", "user_agent"}
          /\ in_held \in {<<"a", "a">>, <<"a", "q">>} \cup
                         {[i \in 1 .. n |-> "a"] : n \in {45, 46, 111}}
       \/ /\ in_kind = "concurrent"
          /\ in_held \in {5, 10, 50}
    /\ in_config = in_held
    /\ in_keys = <<>>
    /\ in_ret = None
    /\ in_pc = "open"
    /\ LINES = 0
    /\ SelectClosed
    /\ BrowserClosed
    /\ AppClosed
    /\ BatchClosed
    /\ OptionsClosed
    /\ ConfigClosed
    /\ PureClosed

InputNext ==
    \E n \in 0 .. MaxKeys :
        \E keys \in [1 .. n -> {"a", "q", "BS"}] :
            \/ InputCallback(keys \o <<"ENTER">>)
            \/ InputCallback([i \in 1 .. 45 |-> "a"] \o keys \o <<"ENTER">>)

SpecInput == InputInit /\ [][InputNext]_vars

\* The keys typed are printable characters, at most width of them, and then
\* Enter.
TypedThenEnter(width) ==
    /\ in_keys # <<>>
    /\ in_keys[Len(in_keys)] = "ENTER"
    /\ Len(in_keys) - 1 <= width
    /\ \A i \in 1 .. Len(in_keys) - 1 : in_keys[i] \in {"a", "q"}

\* C22: for an InputDialog opened with an empty default, typing printable
\* ASCII characters, no more than the input width (46 in a terminal of 80
\* columns), and then Enter makes show() return exactly the typed string.
C22_ReturnsTyped ==
    (in_pc = "done" /\ in_kind = "url" /\ TypedThenEnter(46) /\ Len(in_keys) > 1) =>
        /\ ~in_ret.none
        /\ in_ret.text = SubSeq(in_keys, 1, Len(in_keys) - 1)

\* C22: 'a', 'q', Enter was typed into the url dialog and show() returned
\* None.
C22_LetterCancels ==
    /\ in_pc = "done"
    /\ in_kind = "url"
    /\ in_keys = <<"a", "q", "ENTER">>
    /\ in_ret.none

\* C23: a settings InputDialog opened with the current value and left with
\* Enter, nothing typed, leaves that configuration value unchanged, for every
\* current value, those longer than the input box included.
C23_EnterKeepsValue ==
    (in_pc = "done" /\ in_kind # "url" /\ in_keys = <<"ENTER">>) =>
        in_config = in_held

\* C23, amended: the same for every current value of the text settings, and
\* for a number of concurrent downloads that lies in 1 .. 10.
C23_EnterKeepsAcceptedValue ==
    (/\ in_pc = "done" /\ in_kind # "url" /\ in_keys = <<"ENTER">>
     /\ in_kind = "concurrent" => in_held \in 1 .. 10) =>
        in_config = in_held

\* C23: the user_agent dialog was opened on a value of 111 characters and
\* left with Enter; show() returned None and the value is as it was.
C23_LongValueKept ==
    /\ in_pc = "done"
    /\ in_kind = "user_agent"
    /\ in_keys = <<"ENTER">>
    /\ Len(in_held) = 111
    /\ in_ret.none
    /\ in_config = in_held

(***************************************************************************)
(* C24, C25: the worker threads of VDDTApp                                 *)
(***************************************************************************)
\* The thread t is a transcode_task and the step just made is its own: it
\* left the list of threads, or it alone changed.
TranscodeMoved(t) ==
    /\ tasks[t].kind = "transcode"
    /\ \/ tasks' = RemoveAt(tasks, t)
       \/ /\ Len(tasks') = Len(tasks)
          /\ tasks'[t] # tasks[t]
          /\ \A u \in 1 .. Len(tasks) : u # t => tasks'[u] = tasks[u]

\* What a step of the transcode_task a may do: announce the file i, run it
\* (counting it when no exception came) and go on to the file i + 1 or, after
\* the last file, to the end; write the progress 100 only after the file n;
\* write the final status only after the file n, 'success' when every file
\* was counted and 'warning' with the count otherwise.
TranscodeStepGood(t) ==
    LET a == tasks[t]
        b == tasks'[t]
    IN CASE a.pc = "item_status" ->
              /\ b = [a EXCEPT !.pc = "item_run"]
              /\ status_msg' = Msg("transcode_item", a.i, a.n)
              /\ status_level' = "info"
         [] a.pc = "item_run" ->
              /\ b.success_count \in {a.success_count, a.success_count + 1}
              /\ b.success_count = a.success_count => progress' = progress
              /\ IF a.i < a.n THEN b.i = a.i + 1 /\ b.pc = "item_status"
                 ELSE b.i = a.i /\ b.pc = "final_progress"
         [] a.pc = "final_progress" ->
              /\ a.i = a.n
              /\ b = [a EXCEPT !.pc = "final_status"]
              /\ progress' = 100
         [] OTHER ->
              /\ a.i = a.n
              /\ tasks' = RemoveAt(tasks, t)
              /\ status_level' = IF a.success_count = a.n THEN "success" ELSE "warning"
              /\ status_msg' = IF a.success_count = a.n
                               THEN Msg("transcode_ok", 0, a.n)
                               ELSE Msg("transcode_partial", a.success_count, a.n)

\* C24: the transcode task attempts every selected file once, in the order
\* of the list, also after a file failed: each file i is announced, run and
\* followed by the file i + 1 until the file n, a failed run changes neither
\* the count of successes nor the order, and the status the task writes last
\* is 'success' exactly when all n files were counted as successes and
\* otherwise 'warning' with the number of successes.
C24_EveryFileOnceThenStatus ==
    [][\A t \in 1 .. Len(tasks) : TranscodeMoved(t) => TranscodeStepGood(t)]_vars

\* Of two files one failed, and the task ended with the warning "1/2".
C24_PartialReported ==
    /\ tasks = <<>>
    /\ status_src = "final"
    /\ status_level = "warning"
    /\ status_msg = Msg("transcode_partial", 1, 2)

\* VDDTApp on a terminal of 24 rows and 80 columns, with one thread more
\* than MaxTasks allowed to be alive, and the keys that lead to the callbacks
\* starting a thread: no key, and the shortcuts of the single download, the
\* batch download and the transcoding.
WorkersNext ==
    \/ Draw(24, 80) /\ UNCHANGED <<termVars, sdVars, fsVars, fbVars, bfVars, opVars, cfVars, pfVars, inVars>>
    \/ \E k \in {"TIMEOUT", "1", "2", "3"} :
          HandleInputWithin(k, MaxTasks + 1) /\ UNCHANGED <<termVars, sdVars, fsVars, fbVars, bfVars, opVars, cfVars, pfVars, inVars>>
    \/ \E r \in DialogResults(dlg) :
          SelectReturnsWithin(r, MaxTasks + 1) /\ UNCHANGED <<termVars, sdVars, fsVars, fbVars, bfVars, opVars, cfVars, pfVars, inVars>>
    \/ \E o \in ModalOutcomes(dlg) :
          ModalReturnsWithin(o, MaxTasks + 1) /\ UNCHANGED <<termVars, sdVars, fsVars, fbVars, bfVars, opVars, cfVars, pfVars, inVars>>
    \/ AppTaskStep

SpecWorkers == Init /\ [][WorkersNext]_vars

\* C25: at most one background task thread, of the single download, of the
\* batch download or of the transcoding, is alive at any time.
C25_OneWorkerAlive == Len(tasks) <= 1

\* A transcode_task and a download_task are alive together, and both still
\* have _set_status or _set_progress calls to make.
C25_TwoWorkersAlive ==
    /\ Len(tasks) = 2
    /\ {tasks[1].kind, tasks[2].kind} = {"transcode", "single"}

====
